---- MODULE Spec2Model ----
(***************************************************************************)
(* The turn controller of cmd/voice_assistant (VoiceAssistant) together    *)
(* with the playback sink internal/audio AudioOutput.                      *)
(*                                                                         *)
(* Threads of the program and how they appear here:                        *)
(*   - processingLoop, the tick loop: actions Tick*                        *)
(*   - one goroutine per processRecording call: actions W*(w)              *)
(*   - the PortAudio device callback: action AudioCallback                 *)
(*   - the signal handler calling Stop: action Shutdown                    *)
(* Time is counted in ticker periods (50 ms, main.go:219): a timer is the  *)
(* number of ticks since the time.Now() that started it.                   *)
(***************************************************************************)
EXTENDS Integers, Sequences, FiniteSets, TLC

\* ---------------------------------------------------------------- bounds
\* number of recordings handed to processRecording in one run
MaxTurns == 2
\* Config.InterruptMinDurationMs, in tick periods
InterruptMinTicks == 1
\* Config.MinSilenceDurationMs, in tick periods
MinSilenceTicks == 1
\* Config.MaxRecordingDurationSec, in tick periods
MaxRecordingTicks == 2
\* longest decoded utterance, in samples
MaxSamples == 1
\* samples written by one device callback (1024 in NewAudioOutput)
FramesPerBuffer == 1
\* callers of Manager.Initialize and Manager.Terminate
MaxClients == 2
\* calls of each kind one caller makes
MaxCalls == 2
\* largest Config.MaxHistoryLength tried
MaxHistLen == 4
\* Chat calls that append to the history in one run
MaxChats == 4

\* longest slice handed to PlaySamples by a caller other than the controller
MaxPlaySamples == 3

\* operations that make a temporary file in one run
MaxTempOps == 4

\* goroutines calling TTSService.SynthesizeText
MaxTtsCallers == 2
\* requests the synthesis endpoint serves in one run
MaxNetCalls == 2

\* largest data chunk size field tried, apart from 0xFFFFFFFF
MaxDeclared == 4
\* most bytes a file holds after the header of its data chunk
MaxRest == 14
\* most samples the library decoders (go-wav, minimp3) return
MaxLibSamples == 2

\* most output samples whose source index is computed one by one; of a
\* longer output the first and the last are computed
MaxLoop == 16
\* performLLM calls of one run of the dialogue memory
MaxLlmCalls == 12
\* Start and Stop calls made on one vad.Service
MaxVadCalls == 6

\* ------------------------------------------------------ program constants
HistoryCap == 20

Workers == 1..MaxTurns

\* callers of the audio Manager
Clients == 1..MaxClients

\* the operations that hand audio to a service through a temporary WAV file
TempOps == {"detectSpeechActivity", "detectInterrupt", "performASR"}

\* ---- package tts: speeds are counted in thousandths, 1000 is speed 1.0
\* the bounds of SetSpeed and validateConfig, 0.25 and 4.0
SpeedMin == 250
SpeedMax == 4000
\* the limit of SynthesizeText and ValidateText
MaxTextBytes == 4096

\* speeds a caller asks for: below the range, its bounds, two speeds inside
\* that agree to two decimals, and above the range
Speeds == {100, SpeedMin, 1000, 1004, SpeedMax, 5000}

\* a text: <<characters, bytes of each character in UTF-8>>; one-byte letters
\* and three-byte CJK characters around the limit
Texts == {<<0, 1>>, <<1, 1>>, <<MaxTextBytes, 1>>, <<MaxTextBytes + 1, 1>>,
          <<1365, 3>>, <<1366, 3>>}
\* the texts given to the TTSService
ServiceTexts == {<<0, 1>>, <<1, 1>>}

\* audio the synthesis endpoint may return
Bytes == {"a", "b"}

\* callers of TTSService.SynthesizeText
TtsCallers == 1..MaxTtsCallers

\* fmt's %.2f of a speed: hundredths, rounded to nearest
Fmt2(v) == (v + 5) \div 10

\* generateCacheKey: model and voice (one of each here), the speed as %.2f
\* prints it, the text
CacheKey(cfg, t) == <<Fmt2(cfg.speed), t>>

\* ---- package audio, the decoder
\* the data chunk size field 0xFFFFFFFF.  The code adds the data offset to
\* the field in 64 bits and compares the sum with the length of the file, so
\* every value above the length of the file takes the same path; this one is
\* kept inside the integers of the checker
StreamingSize == 2000000000
\* the offset of the data in a file made of the RIFF header, a 16-byte fmt
\* chunk and the header of the data chunk
DataOffset == 44
\* extractAudioData divides a sample by 32767, decodeWAV and decodeMP3 by 32768
RobustScale == 32767
LibraryScale == 32768

\* the values of the data chunk size field that are tried
DeclaredSizes == (0..MaxDeclared) \cup {StreamingSize}
\* 16-bit sample values in a payload: both ends of int16 and values inside
SampleValues == {-32768, -32767, 0, 32767}

\* what follows the data chunk in the file when the chunk ends before the
\* file does: whole chunks, whole chunks and a pad byte, or fewer bytes than
\* a chunk header has
TailsOf(declared, rest) ==
    IF rest <= declared THEN {"none"}
    ELSE IF rest - declared < 8 THEN {"stray"}
    ELSE IF rest - declared < 10 THEN {"chunk"}
    ELSE {"chunk", "chunk_pad"}

\* the payloads handed to DecodeAudioData: RIFF/WAVE files by their fmt chunk
\* (format code 1 PCM or 3 IEEE float), the size field of the data chunk,
\* the bytes that follow the data chunk header (rest) and the value of the
\* samples; MP3 streams; bytes of no known format
WavPayloads ==
    {p \in [container : {"wav"}, format : {1, 3}, bits : {8, 16},
            channels : {1, 2}, declared : DeclaredSizes, rest : 0..MaxRest,
            tail : {"none", "stray", "chunk", "chunk_pad"},
            level : SampleValues] :
        p.tail \in TailsOf(p.declared, p.rest)}
OtherPayloads ==
    [container : {"mp3", "unknown"}, level : SampleValues]
Payloads == WavPayloads \cup OtherPayloads

\* state.State
StateIdle == "Idle"
StateListening == "Listening"
StateProcessing == "Processing"
StateSpeaking == "Speaking"

\* what one captured frame holds: nothing the detector reports, speech that
\* passes VADThreshold only, speech that also passes InterruptThreshold
Frames == {"silence", "speech", "loud"}

\* detectSpeechActivity asks the detector with VADThreshold, detectInterrupt
\* with the higher InterruptThreshold
HasSpeech(f) == f \in {"speech", "loud"}
HasInterrupt(f) == f = "loud"

\* a Playback Scope: the context performTTS creates; <<w, k>> is the scope of
\* the performTTS call worker w makes for its reply or for its apology
KindReply == "reply"
KindApology == "apology"
ScopeIds == Workers \X {KindReply, KindApology}
\* va.playbackCancel == nil
NoScope == <<0, "none">>

VARIABLES
    allowInterrupt,         \* config.AllowInterrupt
    state,                  \* stateManager.currentState
    rootCancelled,          \* va.ctx is done
    mu,                     \* va.mu is locked (by performLLM, for the whole call)
    playbackCancel,         \* va.playbackCancel: NoScope or the scope it cancels
    scopeSt,                \* each scope: "none", "live" or "cancelled"
    history,                \* va.conversationHistory, the roles
    tpc,                    \* position of the tick loop; after GetState it
                            \* holds the branch chosen on currentState
    frame,                  \* what the detector will report for audioData,
                            \* the frame read on this tick
    isListening,            \* va.isListening
    recElapsed,             \* ticks since recordingStart
    silenceOn,              \* silenceStart is not the zero time
    silElapsed,             \* ticks since silenceStart
    isDetectingInterrupt,   \* va.isDetectingInterrupt
    intElapsed,             \* ticks since va.interruptDetectionStart
    turns,                  \* processing goroutines spawned so far
    pc,                     \* position of each processing goroutine
    kind,                   \* which performTTS call the goroutine is in
    res,                    \* outcome of the goroutine's last call
    procErr,                \* err of processRecording's goroutine: "none", a
                            \* service error or a cancellation error
    aoLen,                  \* len(ao.samples)
    aoPos,                  \* ao.position
    aoFinished,             \* ao.finished
    aoInterrupted,          \* ao.interrupted
    streamActive,           \* ao.stream has been started and not stopped
    sent,                   \* messages of each performLLM call in progress:
                            \* the list handed to ChatCompletion
    shutdownChan,           \* va.shutdownChan holds a value
    startPc,                \* position of Start, called by main
    outerCancelled,         \* the ctx main passes to Start is done
    sigPc,                  \* position of main's signal goroutine
    exitCode,               \* "none" while the process runs, else its exit code
    inClosed,               \* audioInput.stream.Close() has been called
    outClosed,              \* audioOutput.stream.Close() has been called
    refCount,               \* audio Manager.refCount
    initialized,            \* audio Manager.initialized
    paUp,                   \* the PortAudio library is initialized
    paBadTerminate,         \* history: portaudio.Terminate was called on a
                            \* library that was not initialized
    inits,                  \* Manager.Initialize calls each client has made
    terms,                  \* Manager.Terminate calls each client has made
    conversationHist,       \* llm.Service.conversationHist
    maxHistoryLength,       \* llm.Service.maxHistoryLength
    isRunning,              \* llm.Service.isRunning
    chatLog,                \* history: every non-system message a Chat call
                            \* appended, in order
    chatFailed,             \* history: a Chat call has returned an error
                            \* after appending the user message
    turnLimit,              \* recordings the run may hold, at most MaxTurns
    probClean,              \* history: the running probation began in the
                            \* current Speaking turn (no performTTS has set
                            \* Speaking since) and every detection since
                            \* qualified
    tmpPc,                  \* position of each operation that marshals audio
                            \* through a temporary WAV file
    tempFiles,              \* files in the temp directory
    tmpOps,                 \* such operations started so far
    ttsSpeed,               \* tts.TTSClient.speed, in thousandths
    ttsCfg,                 \* tts.TTSService.config (and cacheEnabled)
    ttsRunning,             \* tts.TTSService.isRunning
    ttsCache,               \* tts.TTSService.cache: the entries <<key, bytes,
                            \* speed of the request that produced the bytes>>
    ttsPc,                  \* each caller of TTSService.SynthesizeText: idle,
                            \* or in the call it makes after a cache miss
    ttsRet,                 \* the TTSService.SynthesizeText call that returned
                            \* last, and what it returned
    ttsNet,                 \* requests sent to the synthesis endpoint so far
    ttsOpRet,               \* the last call of SetSpeed, UpdateConfig or
                            \* TTSClient.SynthesizeText and what it returned
    ttsSynth,               \* history: <<configuration, text, bytes>> of the
                            \* SynthesizeText calls that returned bytes
    audioData,              \* the payload handed to DecodeAudioData
    decoded,                \* what DecodeAudioData returned for it
    rsIn,                   \* the arguments of a Resample call
    rsOut,                  \* what the call returned
    audioBuffer,            \* processingLoop's audioBuffer: the frames in it,
                            \* each named <<recording, place in the recording>>
    bufCap,                 \* cap(audioBuffer)
    held,                   \* per goroutine: the elements of the array its
                            \* audioBuffer argument points to, as they are now
    sameArray,              \* per goroutine: the loop's audioBuffer still
                            \* points to that array
    combined,               \* per goroutine: combinedAudio, frame by frame
    lastTick,               \* history: what the last tick did
    vadRunning,             \* vad.Service.isRunning
    vadStopClosed,          \* vad.Service.stopChan has been closed
    vadLog,                 \* history: the Start and Stop calls made on the
                            \* vad.Service and how each ended
    llmCalls                \* performLLM calls made so far

tickVars == <<tpc, frame, isListening, recElapsed, silenceOn,
              silElapsed, isDetectingInterrupt, intElapsed, turns>>
workerVars == <<pc, kind, res, procErr>>
aoVars == <<aoLen, aoPos, aoFinished, aoInterrupted, streamActive>>
scopeVars == <<playbackCancel, scopeSt>>
ghostVars == <<probClean, turnLimit>>
lifeVars == <<startPc, outerCancelled, sigPc, exitCode, inClosed, outClosed>>
mgrVars == <<refCount, initialized, paUp, paBadTerminate, inits, terms>>
svcVars == <<conversationHist, maxHistoryLength, isRunning, chatLog, chatFailed>>
\* what the tick loop, the goroutines and the device callback never touch
tempVars == <<tmpPc, tempFiles, tmpOps>>
\* the packages the controller calls into, each modelled on its own
ttsVars == <<ttsSpeed, ttsCfg, ttsRunning, ttsCache, ttsPc, ttsRet, ttsNet,
             ttsOpRet, ttsSynth>>
decVars == <<audioData, decoded>>
rsVars == <<rsIn, rsOut>>
\* the recording buffer of the tick loop and the vad.Service
recVars == <<audioBuffer, bufCap, held, sameArray, combined, lastTick>>
vadVars == <<vadRunning, vadStopClosed, vadLog>>
auxVars == <<recVars, vadVars, llmCalls>>
libVars == <<tempVars, ttsVars, decVars, rsVars, auxVars>>
envVars == <<lifeVars, mgrVars, svcVars, libVars>>
\* the state of the controller
coreVars == <<allowInterrupt, state, rootCancelled, mu, history, scopeVars,
              tickVars, workerVars, aoVars, ghostVars, sent, shutdownChan>>
vars == <<coreVars, envVars>>

Min(a, b) == IF a < b THEN a ELSE b

\* ------------------------------------------------------------------ Init
\* NewVoiceAssistant, NewAudioOutput and state.NewManager
InitFields ==
    /\ allowInterrupt \in BOOLEAN
    /\ state = StateIdle
    /\ rootCancelled = FALSE
    /\ mu = FALSE
    /\ playbackCancel = NoScope
    /\ scopeSt = [s \in ScopeIds |-> "none"]
    /\ history = <<>>
    /\ frame = FALSE
    /\ isListening = FALSE
    /\ recElapsed = 0
    /\ silenceOn = FALSE
    /\ silElapsed = 0
    /\ isDetectingInterrupt = FALSE
    /\ intElapsed = 0
    /\ turns = 0
    /\ pc = [w \in Workers |-> "unused"]
    /\ kind = [w \in Workers |-> KindReply]
    /\ res = [w \in Workers |-> "none"]
    /\ procErr = [w \in Workers |-> "none"]
    /\ aoLen = 0
    /\ aoPos = 0
    /\ aoFinished = FALSE
    /\ aoInterrupted = FALSE
    /\ streamActive = FALSE
    /\ probClean = FALSE
    /\ sent = [w \in Workers |-> <<>>]
    /\ shutdownChan = FALSE

\* main before the signal: the context for Start is live, the signal goroutine
\* waits on sigChan; NewInput and NewAudioOutput have opened their streams
InitLife ==
    /\ outerCancelled = FALSE
    /\ sigPc = "wait"
    /\ exitCode = "none"
    /\ inClosed = FALSE
    /\ outClosed = FALSE

\* the audio Manager after NewInput and NewAudioOutput: two Initialize calls
InitManagerOpen ==
    /\ refCount = 2
    /\ initialized = TRUE
    /\ paUp = TRUE
    /\ paBadTerminate = FALSE
    /\ inits = [c \in Clients |-> 0]
    /\ terms = [c \in Clients |-> 0]

\* the audio Manager of a fresh process: GetManager's &Manager{}
InitManagerIdle ==
    /\ refCount = 0
    /\ initialized = FALSE
    /\ paUp = FALSE
    /\ paBadTerminate = FALSE
    /\ inits = [c \in Clients |-> 0]
    /\ terms = [c \in Clients |-> 0]

\* the controller makes no llm.Service
InitNoService ==
    /\ conversationHist = <<>>
    /\ maxHistoryLength = 0
    /\ isRunning = FALSE
    /\ chatLog = <<>>
    /\ chatFailed = FALSE

\* no operation has made a temporary file
InitNoTemp ==
    /\ tmpPc = [o \in TempOps |-> "idle"]
    /\ tempFiles = 0
    /\ tmpOps = 0

\* no TTSService has been made
InitNoTTS ==
    /\ ttsSpeed = 1000
    /\ ttsCfg = [speed |-> 1000, cacheEnabled |-> FALSE, maxTextLength |-> 0]
    /\ ttsRunning = FALSE
    /\ ttsCache = {}
    /\ ttsPc = [c \in TtsCallers |-> [at |-> "idle"]]
    /\ ttsRet = [err |-> "no_call"]
    /\ ttsNet = 0
    /\ ttsOpRet = [op |-> "none"]
    /\ ttsSynth = {}

\* nothing has been decoded
InitNoDecode ==
    /\ audioData = [container |-> "none"]
    /\ decoded = [via |-> "none"]

\* nothing has been resampled
InitNoResample ==
    /\ rsIn = [fn |-> "none"]
    /\ rsOut = [err |-> "no_call"]

\* the packages at rest
\* no recording has been made: make([][]float32, 0)
InitNoRec ==
    /\ audioBuffer = <<>>
    /\ bufCap = 0
    /\ held = [w \in Workers |-> <<>>]
    /\ sameArray = [w \in Workers |-> FALSE]
    /\ combined = [w \in Workers |-> <<>>]
    /\ lastTick = [did |-> "none"]

\* the controller makes no vad.Service (it calls vad.Client)
InitNoVad ==
    /\ vadRunning = FALSE
    /\ vadStopClosed = FALSE
    /\ vadLog = <<>>

InitNoAux == InitNoRec /\ InitNoVad /\ llmCalls = 0

InitNoLib ==
    InitNoTemp /\ InitNoTTS /\ InitNoDecode /\ InitNoResample /\ InitNoAux

\* the controller once Start has launched the tick loop
InitRunning ==
    /\ InitFields
    /\ tpc = "wait"
    /\ InitLife
    /\ startPc = "select"
    /\ InitManagerOpen
    /\ InitNoService
    /\ InitNoLib

Init == InitRunning /\ turnLimit = MaxTurns

\* a run that holds a single recording
InitOne == InitRunning /\ turnLimit = 1

\* ------------------------------------------------------------ tick loop
\* a timer that is running has grown by one tick period; it is kept only up
\* to one more than the duration it is compared with
Advance(running, t, limit) == IF running THEN Min(t + 1, limit + 1) ELSE t

\* where the switch on currentState sends the tick
BranchOf(s) ==
    CASE s \in {StateIdle, StateListening} -> "detect"
      [] s = StateSpeaking -> IF allowInterrupt THEN "interrupt" ELSE "wait"
      [] OTHER -> "wait"

\* case <-va.ctx.Done(): shutdownChan <- true; return
TickExit ==
    /\ exitCode = "none"
    /\ tpc = "wait"
    /\ rootCancelled
    /\ tpc' = "exited"
    /\ shutdownChan' = TRUE
    /\ UNCHANGED <<envVars, sent, allowInterrupt, state, rootCancelled, mu, history, scopeVars,
                   frame, isListening, recElapsed, silenceOn, silElapsed,
                   isDetectingInterrupt, intElapsed, turns, workerVars, aoVars,
                   ghostVars>>

\* case <-ticker.C: audioInput.Read(), then GetState()
TickRead ==
    /\ exitCode = "none"
    /\ tpc = "wait"
    /\ recElapsed' = Advance(isListening, recElapsed, MaxRecordingTicks)
    /\ silElapsed' = Advance(silenceOn, silElapsed, MinSilenceTicks)
    /\ intElapsed' = Advance(isDetectingInterrupt, intElapsed, InterruptMinTicks)
    /\ \E f \in Frames, readErr \in BOOLEAN :
          \* the run holds at most turnLimit recordings
          /\ (~isListening /\ turns >= turnLimit /\ BranchOf(state) = "detect")
                => f = "silence"
          /\ IF readErr
                THEN /\ tpc' = "wait"
                     /\ UNCHANGED frame
                ELSE /\ tpc' = BranchOf(state)
                     /\ frame' = CASE BranchOf(state) = "detect" -> HasSpeech(f)
                                    [] BranchOf(state) = "interrupt" -> HasInterrupt(f)
                                    [] OTHER -> FALSE
    /\ UNCHANGED <<envVars, sent, shutdownChan, allowInterrupt, state, rootCancelled, mu, history, scopeVars,
                   isListening, silenceOn, isDetectingInterrupt, turns,
                   workerVars, aoVars, ghostVars>>

\* case state.StateIdle, state.StateListening of the switch
TickDetect ==
    /\ exitCode = "none"
    /\ tpc = "detect"
    /\ \E detErr \in BOOLEAN :
          LET hasSpeech == frame IN
          IF detErr
             THEN /\ tpc' = "wait"
                  /\ UNCHANGED <<state, isListening, recElapsed, silenceOn, silElapsed>>
          ELSE IF hasSpeech
             THEN LET rec == IF isListening THEN recElapsed ELSE 0 IN
                  /\ isListening' = TRUE
                  /\ recElapsed' = rec
                  /\ state' = IF isListening THEN state ELSE StateListening
                  /\ silenceOn' = FALSE
                  /\ silElapsed' = 0
                  /\ tpc' = IF rec > MaxRecordingTicks THEN "process" ELSE "wait"
          ELSE IF isListening
             THEN LET sil == IF silenceOn THEN silElapsed ELSE 0 IN
                  /\ silenceOn' = TRUE
                  /\ silElapsed' = sil
                  /\ tpc' = IF sil > MinSilenceTicks THEN "process" ELSE "wait"
                  /\ UNCHANGED <<state, isListening, recElapsed>>
          ELSE /\ tpc' = "wait"
               /\ UNCHANGED <<state, isListening, recElapsed, silenceOn, silElapsed>>
    /\ frame' = FALSE
    /\ UNCHANGED <<envVars, sent, shutdownChan, allowInterrupt, rootCancelled, mu, history, scopeVars, 
                   isDetectingInterrupt, intElapsed, turns, workerVars, aoVars,
                   ghostVars>>

\* processRecording: SetState(Processing), then the go statement
TickProcess ==
    /\ exitCode = "none"
    /\ tpc = "process"
    /\ turns < turnLimit
    /\ state' = StateProcessing
    /\ turns' = turns + 1
    /\ pc' = [pc EXCEPT ![turns + 1] = "asr"]
    /\ tpc' = "reset"
    /\ UNCHANGED <<envVars, sent, shutdownChan, allowInterrupt, rootCancelled, mu, history, scopeVars, 
                   frame, isListening, recElapsed, silenceOn, silElapsed,
                   isDetectingInterrupt, intElapsed, kind, res, procErr, aoVars,
                   ghostVars>>

\* resetRecording
TickReset ==
    /\ exitCode = "none"
    /\ tpc = "reset"
    /\ isListening' = FALSE
    /\ recElapsed' = 0
    /\ silenceOn' = FALSE
    /\ silElapsed' = 0
    /\ state' = StateIdle
    /\ tpc' = "wait"
    /\ UNCHANGED <<envVars, sent, shutdownChan, allowInterrupt, rootCancelled, mu, history, scopeVars, 
                   frame, isDetectingInterrupt, intElapsed, turns, workerVars,
                   aoVars, ghostVars>>

\* case state.StateSpeaking of the switch, up to the call of handleInterrupt
TickInterrupt ==
    /\ exitCode = "none"
    /\ tpc = "interrupt"
    /\ \E detErr \in BOOLEAN :
          LET hasInterrupt == ~detErr /\ frame IN
          IF hasInterrupt
             THEN LET el == IF isDetectingInterrupt THEN intElapsed ELSE 0 IN
                  /\ isDetectingInterrupt' = TRUE
                  /\ intElapsed' = el
                  /\ probClean' = IF isDetectingInterrupt THEN probClean ELSE TRUE
                  /\ tpc' = IF el > InterruptMinTicks THEN "handle" ELSE "wait"
             ELSE /\ isDetectingInterrupt' = FALSE
                  /\ intElapsed' = 0
                  /\ probClean' = FALSE
                  /\ tpc' = "wait"
    /\ frame' = FALSE
    /\ UNCHANGED <<envVars, sent, shutdownChan, allowInterrupt, state, rootCancelled, mu, history, scopeVars,
                   isListening, recElapsed, silenceOn, silElapsed, turns,
                   workerVars, aoVars, turnLimit>>

\* the performTTS calls that have entered Speaking and not yet reached the sink
BeforePlay(w) == pc[w] \in {"tts_lock", "synth"}

\* handleInterrupt, and the assignment that follows its call
TickHandle ==
    /\ exitCode = "none"
    /\ tpc = "handle"
    /\ ~mu
    /\ scopeSt' = IF playbackCancel # NoScope
                     THEN [scopeSt EXCEPT ![playbackCancel] = "cancelled"]
                     ELSE scopeSt
    /\ playbackCancel' = NoScope
    /\ aoInterrupted' = TRUE
    /\ aoFinished' = TRUE
    /\ isDetectingInterrupt' = FALSE
    /\ intElapsed' = 0
    /\ state' = StateIdle
    /\ tpc' = "wait"
    /\ probClean' = FALSE
    /\ UNCHANGED <<envVars, sent, shutdownChan, allowInterrupt, rootCancelled, mu, history, frame,
                   isListening, recElapsed, silenceOn, silElapsed, turns,
                   workerVars, aoLen, aoPos, streamActive, turnLimit>>

\* one pass of the loop through the ticker case of its select
TickTurn ==
    TickRead \/ TickDetect \/ TickProcess \/ TickReset \/ TickInterrupt
             \/ TickHandle

TickLoop == TickExit \/ TickTurn

\* ------------------------------------------- the goroutine of processRecording
Scope(w) == <<w, kind[w]>>

\* the cancel func of context.WithCancel; the callers skip a nil func
CancelScope(sc) ==
    IF sc # NoScope THEN [scopeSt EXCEPT ![sc] = "cancelled"] ELSE scopeSt

\* llm.Message: the role, and for the content the turn it belongs to (the
\* text of turn w, the reply to turn w); 0 for the system prompt
SystemPrompt == <<"system", 0>>
UserMsg(w) == <<"user", w>>
AssistantMsg(w) == <<"assistant", w>>

\* performLLM: the list sent to the Responder, the system prompt followed by
\* the conversation history
Messages(h) == <<SystemPrompt>> \o h

\* performLLM: the history is cut by its two oldest entries above HistoryCap
Trim(h) == IF Len(h) > HistoryCap THEN SubSeq(h, 3, Len(h)) ELSE h

\* the error an adapter call returns: the context's cancellation error when
\* its context was cancelled, a service error otherwise
ErrOf(cancelled) == IF cancelled THEN "canceled" ELSE "service"

\* performASR: failure, empty text, or a text
WAsr(w) ==
    /\ exitCode = "none"
    /\ pc[w] = "asr"
    /\ \E out \in {"error", "empty", "text"} :
          /\ rootCancelled => out = "error"
          /\ CASE out = "error" ->
                    /\ procErr' = [procErr EXCEPT ![w] = ErrOf(rootCancelled)]
                    /\ kind' = [kind EXCEPT ![w] = KindApology]
                    /\ pc' = [pc EXCEPT ![w] = "tts_begin"]
               [] out = "empty" ->
                    /\ pc' = [pc EXCEPT ![w] = "exit"]
                    /\ UNCHANGED <<procErr, kind>>
               [] out = "text" ->
                    /\ pc' = [pc EXCEPT ![w] = "llm_lock"]
                    /\ UNCHANGED <<procErr, kind>>
    /\ UNCHANGED <<envVars, sent, shutdownChan, allowInterrupt, state, rootCancelled, mu, history, scopeVars,
                   tickVars, res, aoVars, ghostVars>>

\* performLLM with the request's list built before the user message is appended
WLlmLockStale(w) ==
    /\ exitCode = "none"
    /\ pc[w] = "llm_lock"
    /\ ~mu
    /\ mu' = TRUE
    /\ history' = Append(history, UserMsg(w))
    /\ sent' = [sent EXCEPT ![w] = Messages(history)]
    /\ pc' = [pc EXCEPT ![w] = "llm_call"]
    /\ UNCHANGED <<envVars, shutdownChan, allowInterrupt, state, rootCancelled,
                   scopeVars, tickVars, kind, res, procErr, aoVars, ghostVars>>

\* performLLM: va.mu.Lock(), the append of the user message and the list
\* `messages` built for the request
WLlmLock(w) ==
    /\ exitCode = "none"
    /\ pc[w] = "llm_lock"
    /\ ~mu
    /\ mu' = TRUE
    /\ history' = Append(history, UserMsg(w))
    /\ sent' = [sent EXCEPT ![w] = Messages(history')]
    /\ pc' = [pc EXCEPT ![w] = "llm_call"]
    /\ UNCHANGED <<envVars, shutdownChan, allowInterrupt, state, rootCancelled, scopeVars, tickVars,
                   kind, res, procErr, aoVars, ghostVars>>

\* performLLM: ChatCompletion returns, under va.mu; the deferred Unlock
WLlmCall(w) ==
    /\ exitCode = "none"
    /\ pc[w] = "llm_call"
    /\ \E ok \in BOOLEAN :
          /\ rootCancelled => ~ok
          /\ IF ok
                THEN /\ history' = Trim(Append(history, AssistantMsg(w)))
                     /\ kind' = [kind EXCEPT ![w] = KindReply]
                     /\ UNCHANGED procErr
                ELSE /\ procErr' = [procErr EXCEPT ![w] = ErrOf(rootCancelled)]
                     /\ kind' = [kind EXCEPT ![w] = KindApology]
                     /\ UNCHANGED history
    /\ mu' = FALSE
    /\ sent' = [sent EXCEPT ![w] = <<>>]
    /\ pc' = [pc EXCEPT ![w] = "tts_begin"]
    /\ UNCHANGED <<envVars, shutdownChan, allowInterrupt, state, rootCancelled, scopeVars, tickVars,
                   res, aoVars, ghostVars>>

\* performTTS: SetState(Speaking)
WTtsBegin(w) ==
    /\ exitCode = "none"
    /\ pc[w] = "tts_begin"
    /\ state' = StateSpeaking
    /\ res' = [res EXCEPT ![w] = "none"]
    /\ pc' = [pc EXCEPT ![w] = "tts_lock"]
    /\ probClean' = FALSE
    /\ UNCHANGED <<envVars, sent, shutdownChan, allowInterrupt, rootCancelled, mu, history, scopeVars,
                   tickVars, kind, procErr, aoVars, turnLimit>>

\* performTTS: the Playback Scope is created under va.mu
WTtsLock(w) ==
    /\ exitCode = "none"
    /\ pc[w] = "tts_lock"
    /\ ~mu
    /\ scopeSt' = [scopeSt EXCEPT ![Scope(w)] =
                       IF rootCancelled THEN "cancelled" ELSE "live"]
    /\ playbackCancel' = Scope(w)
    /\ pc' = [pc EXCEPT ![w] = "synth"]
    /\ UNCHANGED <<envVars, sent, shutdownChan, allowInterrupt, state, rootCancelled, mu, history, tickVars,
                   kind, res, procErr, aoVars, ghostVars>>

\* performTTS: SynthesizeText returns; on success PlayAudioData decodes, and
\* PlaySamples takes the samples and starts the stream (ao.stream.Start()
\* fails on a stream that is already running)
WSynth(w) ==
    /\ exitCode = "none"
    /\ pc[w] = "synth"
    /\ \E out \in {"error", "decode_error", "no_samples", "samples"},
          n \in 1..MaxSamples :
          IF scopeSt[Scope(w)] = "cancelled"
             THEN /\ res' = [res EXCEPT ![w] = "synth_canceled"]
                  /\ pc' = [pc EXCEPT ![w] = "cleanup"]
                  /\ UNCHANGED aoVars
          ELSE IF out = "error"
             THEN /\ res' = [res EXCEPT ![w] = "synth_failed"]
                  /\ pc' = [pc EXCEPT ![w] = "cleanup"]
                  /\ UNCHANGED aoVars
          ELSE IF out \in {"decode_error", "no_samples"}
             THEN /\ res' = [res EXCEPT ![w] = "play_failed"]
                  /\ pc' = [pc EXCEPT ![w] = "cleanup"]
                  /\ UNCHANGED aoVars
          ELSE /\ aoLen' = n
               /\ aoPos' = 0
               /\ aoFinished' = FALSE
               /\ aoInterrupted' = FALSE
               /\ IF streamActive
                     THEN /\ res' = [res EXCEPT ![w] = "play_failed"]
                          /\ pc' = [pc EXCEPT ![w] = "cleanup"]
                          /\ UNCHANGED streamActive
                     ELSE /\ streamActive' = TRUE
                          /\ pc' = [pc EXCEPT ![w] = "play_wait"]
                          /\ UNCHANGED res
    /\ UNCHANGED <<envVars, sent, shutdownChan, allowInterrupt, state, rootCancelled, mu, history, scopeVars,
                   tickVars, kind, procErr, ghostVars>>

\* PlaySamples: case <-ctx.Done() of the wait loop: ao.Stop(), return ctx.Err()
WPlayCancelled(w) ==
    /\ exitCode = "none"
    /\ pc[w] = "play_wait"
    /\ scopeSt[Scope(w)] = "cancelled"
    /\ aoInterrupted' = TRUE
    /\ aoFinished' = TRUE
    /\ res' = [res EXCEPT ![w] = "play_canceled"]
    /\ pc' = [pc EXCEPT ![w] = "cleanup"]
    /\ UNCHANGED <<envVars, sent, shutdownChan, allowInterrupt, state, rootCancelled, mu, history, scopeVars,
                   tickVars, kind, procErr, aoLen, aoPos, streamActive, ghostVars>>

\* where the wait loop goes after the ticker case has read `finished`: the
\* break statement ends the select, and the for loop goes round again
AfterPoll(finished) == "play_wait"

\* PlaySamples: case <-ticker.C of the wait loop
WPlayPoll(w) ==
    /\ exitCode = "none"
    /\ pc[w] = "play_wait"
    /\ pc' = [pc EXCEPT ![w] = AfterPoll(aoFinished \/ aoInterrupted)]
    /\ UNCHANGED <<envVars, sent, shutdownChan, allowInterrupt, state, rootCancelled, mu, history, scopeVars,
                   tickVars, kind, res, procErr, aoVars, ghostVars>>

\* performTTS: the deferred func that cancels va.playbackCancel
WCleanup(w) ==
    /\ exitCode = "none"
    /\ pc[w] = "cleanup"
    /\ ~mu
    /\ scopeSt' = CancelScope(playbackCancel)
    /\ playbackCancel' = NoScope
    /\ pc' = [pc EXCEPT ![w] = "tts_end"]
    /\ UNCHANGED <<envVars, sent, shutdownChan, allowInterrupt, state, rootCancelled, mu, history, tickVars,
                   kind, res, procErr, aoVars, ghostVars>>

\* what performTTS returns: the synthesis error, or the playback error unless
\* that is context.Canceled
TtsFailed(r) == r \in {"synth_canceled", "synth_failed", "play_failed"}

\* playCtx goes out of scope when performTTS returns: a cancelled context that
\* nothing refers to is forgotten, one that was never cancelled stays live
Dropped(st) == IF st = "cancelled" THEN "none" ELSE st

\* performTTS: the deferred SetState(Idle) and the return to the caller, which
\* calls playErrorMessage when the reply's performTTS returned an error
WTtsEnd(w) ==
    /\ exitCode = "none"
    /\ pc[w] = "tts_end"
    /\ state' = StateIdle
    /\ scopeSt' = [scopeSt EXCEPT ![Scope(w)] = Dropped(scopeSt[Scope(w)])]
    /\ IF kind[w] = KindReply /\ TtsFailed(res[w])
          THEN /\ procErr' = [procErr EXCEPT ![w] =
                                  ErrOf(res[w] = "synth_canceled")]
               /\ kind' = [kind EXCEPT ![w] = KindApology]
               /\ pc' = [pc EXCEPT ![w] = "tts_begin"]
          ELSE /\ pc' = [pc EXCEPT ![w] = "exit"]
               /\ UNCHANGED <<procErr, kind>>
    /\ UNCHANGED <<envVars, sent, shutdownChan, allowInterrupt, rootCancelled, mu, history, playbackCancel,
                   tickVars, res, aoVars, ghostVars>>

\* the goroutine's deferred SetState(Idle); its locals end with it
WExit(w) ==
    /\ exitCode = "none"
    /\ pc[w] = "exit"
    /\ state' = StateIdle
    /\ pc' = [pc EXCEPT ![w] = "done"]
    /\ kind' = [kind EXCEPT ![w] = KindReply]
    /\ res' = [res EXCEPT ![w] = "none"]
    /\ procErr' = [procErr EXCEPT ![w] = "none"]
    /\ UNCHANGED <<envVars, sent, shutdownChan, allowInterrupt, rootCancelled, mu, history, scopeVars,
                   tickVars, aoVars, ghostVars>>

Worker(w) ==
    \/ WAsr(w)
    \/ WLlmLock(w)
    \/ WLlmCall(w)
    \/ WTtsBegin(w)
    \/ WTtsLock(w)
    \/ WSynth(w)
    \/ WPlayCancelled(w)
    \/ WPlayPoll(w)
    \/ WCleanup(w)
    \/ WTtsEnd(w)
    \/ WExit(w)

\* ------------------------------------------------------- the device callback
\* audioCallback, writing one buffer of FramesPerBuffer samples
AudioCallback ==
    /\ exitCode = "none"
    /\ streamActive
    /\ IF aoInterrupted
          THEN /\ aoFinished' = TRUE
               /\ UNCHANGED aoPos
          ELSE /\ aoPos' = Min(aoPos + FramesPerBuffer, aoLen)
               /\ aoFinished' = (aoFinished \/ aoPos + FramesPerBuffer > aoLen)
    /\ UNCHANGED <<envVars, sent, shutdownChan, allowInterrupt, state, rootCancelled, mu, history, scopeVars,
                   tickVars, workerVars, aoLen, aoInterrupted, streamActive,
                   ghostVars>>

\* ------------------------------------------------------------------ shutdown
\* Stop: va.cancel() ends va.ctx and every context derived from it
CancelRoot ==
    /\ rootCancelled' = TRUE
    /\ scopeSt' = [s \in ScopeIds |->
                      IF scopeSt[s] = "live" THEN "cancelled" ELSE scopeSt[s]]

\* the signal goroutine of main reaching va.cancel(), for a controller that
\* Start has set running
Shutdown ==
    /\ ~rootCancelled
    /\ CancelRoot
    /\ UNCHANGED <<envVars, sent, shutdownChan, allowInterrupt, state, mu, history, playbackCancel, tickVars,
                   workerVars, aoVars, ghostVars>>

Next ==
    \/ TickLoop
    \/ \E w \in Workers : Worker(w)
    \/ AudioCallback
    \/ Shutdown

Spec == Init /\ [][Next]_vars

\* the controller while no signal arrives: va.ctx stays live, so the ctx.Done
\* case of the tick loop's select is never ready
NextTurns ==
    \/ TickTurn
    \/ \E w \in Workers : Worker(w)
    \/ AudioCallback

SpecTurns == Init /\ [][NextTurns]_vars

\* the ticker fires for ever, every goroutine that can take a step is
\* scheduled, and the device calls back while the stream runs; the signal that
\* causes Shutdown may never come
Fairness ==
    /\ WF_vars(TickLoop)
    /\ \A w \in Workers : WF_vars(Worker(w))
    /\ WF_vars(AudioCallback)

FairOne == InitOne /\ [][Next]_vars /\ Fairness

\* ---------------------------------------------------------------- llm.Service
IsSystem(m) == m[1] = "system"
NotSystem(m) == m[1] # "system"

\* trimHistory
TrimHistory(h, max) ==
    IF Len(h) <= max
       THEN h
       ELSE LET systemMessages == SelectSeq(h, IsSystem)
                conversationMessages == SelectSeq(h, NotSystem)
                maxConversationMessages == max - Len(systemMessages)
                startIndex == Len(conversationMessages) - maxConversationMessages
            IN  systemMessages \o
                (IF maxConversationMessages > 0
                       /\ Len(conversationMessages) > maxConversationMessages
                    THEN SubSeq(conversationMessages, startIndex + 1,
                                Len(conversationMessages))
                    ELSE conversationMessages)

\* NewService: the history starts with the system message unless
\* Config.SystemMessage is empty; MaxHistoryLength is taken as configured
InitService ==
    /\ conversationHist \in {<<>>, <<SystemPrompt>>}
    /\ maxHistoryLength \in 0..MaxHistLen
    /\ isRunning = FALSE
    /\ chatLog = <<>>
    /\ chatFailed = FALSE

\* a Service on its own: no controller runs
InitChat ==
    /\ InitFields
    /\ tpc = "unstarted"
    /\ allowInterrupt = TRUE
    /\ turnLimit = 0
    /\ InitLife
    /\ startPc = "init"
    /\ InitManagerIdle
    /\ InitService
    /\ InitNoLib

\* Service.Start: ValidateAPIKey succeeds or not
SvcStart ==
    /\ ~isRunning
    /\ \E valid \in BOOLEAN : isRunning' = valid
    /\ UNCHANGED <<coreVars, lifeVars, mgrVars, libVars, conversationHist,
                   maxHistoryLength, chatLog, chatFailed>>

\* the Chat calls made so far that appended their user message
Chats == Len(SelectSeq(chatLog, LAMBDA m : m[1] = "user"))

\* Service.Chat on a running service (it returns an error at once otherwise):
\* a blank message is refused; else the user message is appended, and on a
\* reply the assistant message is appended and the history trimmed
SvcChat ==
    /\ isRunning
    /\ Chats < MaxChats
    /\ \E out \in {"blank", "error", "no_choices", "ok"} :
          LET k == Chats + 1
              withUser == Append(conversationHist, UserMsg(k))
          IN  CASE out = "blank" ->
                     UNCHANGED <<conversationHist, chatLog, chatFailed>>
                [] out \in {"error", "no_choices"} ->
                     /\ conversationHist' = withUser
                     /\ chatLog' = Append(chatLog, UserMsg(k))
                     /\ chatFailed' = TRUE
                [] out = "ok" ->
                     /\ conversationHist' =
                            TrimHistory(Append(withUser, AssistantMsg(k)),
                                        maxHistoryLength)
                     /\ chatLog' = chatLog \o <<UserMsg(k), AssistantMsg(k)>>
                     /\ UNCHANGED chatFailed
    /\ UNCHANGED <<coreVars, lifeVars, mgrVars, libVars, maxHistoryLength, isRunning>>

\* ClearHistory without the test of the role
ClearHistoryAll(h) == <<>>

\* ClearHistory: the loop that collects the messages whose Role is "system"
ClearHistory(h) == SelectSeq(h, IsSystem)

\* Service.ClearHistory, which any caller may call at any time
SvcClearHistory ==
    /\ conversationHist # ClearHistory(conversationHist)
    /\ conversationHist' = ClearHistory(conversationHist)
    /\ UNCHANGED <<coreVars, lifeVars, mgrVars, libVars, maxHistoryLength, isRunning,
                   chatLog, chatFailed>>

NextChat == SvcStart \/ SvcChat \/ SvcClearHistory

SpecChat == InitChat /\ [][NextChat]_vars

\* -------------------------------------------------------------- audio.Manager
\* Manager.Initialize, under m.mu: portaudio.Initialize() succeeds or fails
MgrInitialize(c) ==
    /\ inits[c] < MaxCalls
    /\ inits' = [inits EXCEPT ![c] = @ + 1]
    /\ \E ok \in BOOLEAN :
          IF ~initialized
             THEN IF ok
                     THEN /\ paUp' = TRUE
                          /\ initialized' = TRUE
                          /\ refCount' = refCount + 1
                     ELSE UNCHANGED <<paUp, initialized, refCount>>
             ELSE /\ refCount' = refCount + 1
                  /\ UNCHANGED <<paUp, initialized>>
    /\ UNCHANGED <<coreVars, lifeVars, svcVars, libVars, paBadTerminate, terms>>

\* Terminate without the test of the count before the decrement
ReleasedUnchecked(n) == n - 1

\* the count after Terminate's `if m.refCount > 0 { m.refCount-- }`
Released(n) == IF n > 0 THEN n - 1 ELSE n

\* Manager.Terminate, under m.mu: portaudio.Terminate() returns an error on
\* a library that is not initialized, and then m.initialized is kept
TerminateCall ==
    /\ refCount' = Released(refCount)
    /\ IF refCount' = 0 /\ initialized
          THEN IF paUp
                  THEN /\ paUp' = FALSE
                       /\ initialized' = FALSE
                       /\ UNCHANGED paBadTerminate
                  ELSE /\ paBadTerminate' = TRUE
                       /\ UNCHANGED <<paUp, initialized>>
          ELSE UNCHANGED <<paUp, initialized, paBadTerminate>>

\* a client calling Manager.Terminate
MgrTerminate(c) ==
    /\ terms[c] < MaxCalls
    /\ terms' = [terms EXCEPT ![c] = @ + 1]
    /\ TerminateCall
    /\ UNCHANGED <<coreVars, lifeVars, svcVars, libVars, inits>>

\* a Manager on its own: no controller runs
InitManager ==
    /\ InitFields
    /\ tpc = "unstarted"
    /\ allowInterrupt = TRUE
    /\ turnLimit = 0
    /\ InitLife
    /\ startPc = "init"
    /\ InitManagerIdle
    /\ InitNoService
    /\ InitNoLib

NextManager == \E c \in Clients : MgrInitialize(c) \/ MgrTerminate(c)

SpecManager == InitManager /\ [][NextManager]_vars

\* --------------------------------------------------------------------- main
\* main at the call of Start: the tick loop has not been started
InitStart ==
    /\ InitFields
    /\ tpc = "unstarted"
    /\ turnLimit = 1
    /\ InitLife
    /\ startPc = "init"
    /\ InitManagerOpen
    /\ InitNoService
    /\ InitNoLib

\* Start with the tick loop launched before the detector check
StartFailLoopRunning ==
    /\ exitCode = "none"
    /\ startPc = "init"
    /\ startPc' = "check_failed"
    /\ tpc' = "wait"
    /\ UNCHANGED <<mgrVars, svcVars, libVars, outerCancelled, sigPc, exitCode, inClosed,
                   outClosed, sent, shutdownChan, allowInterrupt, state,
                   rootCancelled, mu, history, scopeVars, frame, isListening,
                   recElapsed, silenceOn, silElapsed, isDetectingInterrupt,
                   intElapsed, turns, workerVars, aoVars, ghostVars>>

\* Start: checkVADService returns an error and Start returns it
StartFail ==
    /\ exitCode = "none"
    /\ startPc = "init"
    /\ startPc' = "check_failed"
    /\ UNCHANGED <<coreVars, mgrVars, svcVars, libVars, outerCancelled, sigPc, exitCode,
                   inClosed, outClosed>>

\* Start: checkVADService passes, go va.processingLoop(), then the select
StartOk ==
    /\ exitCode = "none"
    /\ startPc = "init"
    /\ startPc' = "select"
    /\ tpc' = "wait"
    /\ UNCHANGED <<mgrVars, svcVars, libVars, outerCancelled, sigPc, exitCode, inClosed,
                   outClosed, sent, shutdownChan, allowInterrupt, state,
                   rootCancelled, mu, history, scopeVars, frame, isListening,
                   recElapsed, silenceOn, silElapsed, isDetectingInterrupt,
                   intElapsed, turns, workerVars, aoVars, ghostVars>>

\* Start: case <-ctx.Done(): return ctx.Err()
StartReturnCtx ==
    /\ exitCode = "none"
    /\ startPc = "select"
    /\ outerCancelled
    /\ startPc' = "returned_ctxerr"
    /\ UNCHANGED <<coreVars, mgrVars, svcVars, libVars, outerCancelled, sigPc, exitCode,
                   inClosed, outClosed>>

\* Start: case <-va.shutdownChan: return nil
StartReturnNil ==
    /\ exitCode = "none"
    /\ startPc = "select"
    /\ shutdownChan
    /\ shutdownChan' = FALSE
    /\ startPc' = "returned_nil"
    /\ UNCHANGED <<mgrVars, svcVars, libVars, outerCancelled, sigPc, exitCode, inClosed,
                   outClosed, sent, allowInterrupt, state, rootCancelled, mu,
                   history, scopeVars, tickVars, workerVars, aoVars, ghostVars>>

\* main after Start: log.Fatalf on an error (exit code 1), else main returns
\* (exit code 0); either way the process and its goroutines end
MainExit ==
    /\ exitCode = "none"
    /\ startPc \in {"check_failed", "returned_ctxerr", "returned_nil"}
    /\ exitCode' = IF startPc = "returned_nil" THEN "0" ELSE "1"
    /\ UNCHANGED <<coreVars, mgrVars, svcVars, libVars, startPc, outerCancelled, sigPc,
                   inClosed, outClosed>>

\* the signal goroutine: <-sigChan, then cancel() of the context given to Start
SigCancel ==
    /\ exitCode = "none"
    /\ sigPc = "wait"
    /\ outerCancelled' = TRUE
    /\ sigPc' = "stop"
    /\ UNCHANGED <<coreVars, mgrVars, svcVars, libVars, startPc, exitCode, inClosed,
                   outClosed>>

\* Stop: va.cancel()
StopCancel ==
    /\ exitCode = "none"
    /\ sigPc = "stop"
    /\ CancelRoot
    /\ sigPc' = "close_in"
    /\ UNCHANGED <<mgrVars, svcVars, libVars, startPc, outerCancelled, exitCode, inClosed,
                   outClosed, sent, shutdownChan, allowInterrupt, state, mu,
                   history, playbackCancel, tickVars, workerVars, aoVars,
                   ghostVars>>

\* Stop: va.audioInput.Close(): the stream is closed, with an error or not,
\* and Manager.Terminate is called in both cases
StopCloseInput ==
    /\ exitCode = "none"
    /\ sigPc = "close_in"
    /\ inClosed' = TRUE
    /\ TerminateCall
    /\ sigPc' = "close_out"
    /\ UNCHANGED <<coreVars, svcVars, libVars, startPc, outerCancelled, exitCode,
                   outClosed, inits, terms>>

\* Stop: va.audioOutput.Close(): when stream.Close() returns an error Close
\* returns it, else it calls Manager.Terminate; then Stop returns
StopCloseOutput ==
    /\ exitCode = "none"
    /\ sigPc = "close_out"
    /\ outClosed' = TRUE
    /\ streamActive' = FALSE
    /\ \E closeErr \in BOOLEAN :
          IF closeErr
             THEN UNCHANGED <<refCount, initialized, paUp, paBadTerminate>>
             ELSE TerminateCall
    /\ sigPc' = "stopped"
    /\ UNCHANGED <<svcVars, libVars, startPc, outerCancelled, exitCode, inClosed, inits,
                   terms, sent, shutdownChan, allowInterrupt, state,
                   rootCancelled, mu, history, scopeVars, tickVars, workerVars,
                   aoLen, aoPos, aoFinished, aoInterrupted, ghostVars>>

\* the process: main, the signal goroutine and the controller's threads; each
\* takes steps only while the process runs (exitCode = "none")
NextLife ==
    \/ StartFail
    \/ StartOk
    \/ StartReturnCtx
    \/ StartReturnNil
    \/ MainExit
    \/ SigCancel
    \/ StopCancel
    \/ StopCloseInput
    \/ StopCloseOutput
    \/ TickLoop
    \/ \E w \in Workers : Worker(w)
    \/ AudioCallback

SpecLife == InitStart /\ [][NextLife]_vars

\* ---------------------------------------------------------------- AudioOutput
\* an AudioOutput with its callers and no controller: NewAudioOutput has opened
\* the stream, nothing plays
InitOutput ==
    /\ InitFields
    /\ tpc = "unstarted"
    /\ allowInterrupt = TRUE
    /\ turnLimit = 0
    /\ InitLife
    /\ startPc = "init"
    /\ InitManagerOpen
    /\ InitNoService
    /\ InitNoLib

\* the position of a caller that is in no PlaySamples call: it has made none,
\* or its last one has returned
NotPlaying(w) == pc[w] \in {"unused", "cleanup"}

\* PlaySamples called with a live context: an empty slice is refused; else the
\* samples are taken under ao.mu, the flags reset and the stream started
\* (ao.stream.Start() fails on a stream that is already running)
OutPlay(w) ==
    /\ NotPlaying(w)
    /\ scopeSt' = [scopeSt EXCEPT ![Scope(w)] = "live"]
    /\ \E n \in 0..MaxPlaySamples :
          IF n = 0
             THEN /\ res' = [res EXCEPT ![w] = "play_failed"]
                  /\ pc' = [pc EXCEPT ![w] = "cleanup"]
                  /\ UNCHANGED aoVars
             ELSE /\ aoLen' = n
                  /\ aoPos' = 0
                  /\ aoFinished' = FALSE
                  /\ aoInterrupted' = FALSE
                  /\ IF streamActive
                        THEN /\ res' = [res EXCEPT ![w] = "play_failed"]
                             /\ pc' = [pc EXCEPT ![w] = "cleanup"]
                             /\ UNCHANGED streamActive
                        ELSE /\ streamActive' = TRUE
                             /\ pc' = [pc EXCEPT ![w] = "play_wait"]
                             /\ res' = [res EXCEPT ![w] = "none"]
    /\ UNCHANGED <<envVars, sent, shutdownChan, allowInterrupt, state,
                   rootCancelled, mu, history, playbackCancel, tickVars, kind,
                   procErr, ghostVars>>

\* AudioOutput.Stop, from any goroutine: both flags are set under ao.mu
OutStop ==
    /\ aoInterrupted' = TRUE
    /\ aoFinished' = TRUE
    /\ UNCHANGED <<envVars, sent, shutdownChan, allowInterrupt, state,
                   rootCancelled, mu, history, scopeVars, tickVars, workerVars,
                   aoLen, aoPos, streamActive, ghostVars>>

\* the caller of PlaySamples cancels the context it passed
OutCancel(w) ==
    /\ pc[w] = "play_wait"
    /\ scopeSt[Scope(w)] = "live"
    /\ scopeSt' = CancelScope(Scope(w))
    /\ UNCHANGED <<envVars, sent, shutdownChan, allowInterrupt, state,
                   rootCancelled, mu, history, playbackCancel, tickVars,
                   workerVars, aoVars, ghostVars>>

\* the wait loop of one PlaySamples call
PlayWait(w) == WPlayCancelled(w) \/ WPlayPoll(w)

NextOutput ==
    \/ \E w \in Workers : OutPlay(w)
    \/ OutStop
    \/ \E w \in Workers : OutCancel(w)
    \/ \E w \in Workers : PlayWait(w)
    \/ AudioCallback

\* every PlaySamples goroutine is scheduled and the device calls back while
\* the stream runs; nobody is bound to call PlaySamples, Stop or cancel
FairOutput ==
    /\ InitOutput
    /\ [][NextOutput]_vars
    /\ \A w \in Workers : WF_vars(PlayWait(w))
    /\ WF_vars(AudioCallback)

\* ------------------------------------------------------ temporary WAV files
\* the operations on their own: no controller state is involved
InitTemp ==
    /\ InitFields
    /\ tpc = "unstarted"
    /\ allowInterrupt = TRUE
    /\ turnLimit = 0
    /\ InitLife
    /\ startPc = "init"
    /\ InitManagerOpen
    /\ InitNoService
    /\ InitNoLib

\* detectSpeechActivity and detectInterrupt are called by the tick loop, one
\* at a time; performASR is called by a processRecording goroutine
SameGoroutine(o) ==
    IF o = "performASR" THEN {o} ELSE {"detectSpeechActivity", "detectInterrupt"}

\* saveAudioToTempFile: os.CreateTemp makes the file or fails; on failure the
\* operation returns the error
TmpCreate(o) ==
    /\ \A q \in SameGoroutine(o) : tmpPc[q] = "idle"
    /\ tmpOps < MaxTempOps
    /\ tmpOps' = tmpOps + 1
    /\ \E ok \in BOOLEAN :
          IF ok
             THEN /\ tempFiles' = tempFiles + 1
                  /\ tmpPc' = [tmpPc EXCEPT ![o] = "header"]
             ELSE UNCHANGED <<tempFiles, tmpPc>>
    /\ UNCHANGED <<coreVars, lifeVars, mgrVars, svcVars, ttsVars, decVars,
                   rsVars, auxVars>>

\* saveAudioToTempFile: tempFile.Write(header); on an error it returns "" and
\* the error, and the operation returns the error
TmpWriteHeader(o) ==
    /\ tmpPc[o] = "header"
    /\ \E ok \in BOOLEAN :
          tmpPc' = [tmpPc EXCEPT ![o] = IF ok THEN "samples" ELSE "idle"]
    /\ UNCHANGED <<coreVars, lifeVars, mgrVars, svcVars, ttsVars, decVars,
                   rsVars, auxVars, tempFiles, tmpOps>>

\* saveAudioToTempFile: the binary.Write loop over the samples; on an error it
\* returns "" and the error; else it returns the name and the operation
\* defers os.Remove of it
TmpWriteSamples(o) ==
    /\ tmpPc[o] = "samples"
    /\ \E ok \in BOOLEAN :
          tmpPc' = [tmpPc EXCEPT ![o] = IF ok THEN "call" ELSE "idle"]
    /\ UNCHANGED <<coreVars, lifeVars, mgrVars, svcVars, ttsVars, decVars,
                   rsVars, auxVars, tempFiles, tmpOps>>

\* the call of the detector or the transcriber returns, with a result or an
\* error, and the deferred os.Remove deletes the file
TmpCallReturn(o) ==
    /\ tmpPc[o] = "call"
    /\ tempFiles' = tempFiles - 1
    /\ tmpPc' = [tmpPc EXCEPT ![o] = "idle"]
    /\ UNCHANGED <<coreVars, lifeVars, mgrVars, svcVars, ttsVars, decVars,
                   rsVars, auxVars, tmpOps>>

NextTemp ==
    \E o \in TempOps :
        \/ TmpCreate(o)
        \/ TmpWriteHeader(o)
        \/ TmpWriteSamples(o)
        \/ TmpCallReturn(o)

SpecTemp == InitTemp /\ [][NextTemp]_vars

\* ------------------------------------------------------------- package tts
\* SetSpeed: the speed the client keeps
ClampSpeed(v) ==
    IF v < SpeedMin THEN SpeedMin ELSE IF v > SpeedMax THEN SpeedMax ELSE v

\* len(text), which counts bytes
Len8(t) == t[1] * t[2]

\* TTSClient.SynthesizeText and ValidateText: the checks before the request
ClientCheck(t) ==
    IF Len8(t) = 0 THEN "empty"
    ELSE IF Len8(t) > MaxTextBytes THEN "too_long"
    ELSE "none"

\* TTSService.validateText
ServiceCheck(t, cfg) ==
    IF Len8(t) = 0 THEN "empty"
    ELSE IF Len8(t) > cfg.maxTextLength THEN "too_long"
    ELSE "none"

\* validateConfig: model, voice and format first, then speed, then the length
ValidateConfig(cfg, namesOk) ==
    IF ~namesOk THEN "invalid_name"
    ELSE IF cfg.speed < SpeedMin \/ cfg.speed > SpeedMax THEN "invalid_speed"
    ELSE IF cfg.maxTextLength <= 0 \/ cfg.maxTextLength > MaxTextBytes
       THEN "invalid_max_text_length"
    ELSE "none"

\* s.cache[key]: the bytes under the key, "nil" when there are none
Cached(k) ==
    IF \E e \in ttsCache : e[1] = k
       THEN (CHOOSE e \in ttsCache : e[1] = k)[2]
       ELSE "nil"

\* s.cache[key] = audioData, the bytes of a request made at the speed `made`
Store(k, b, made) == {e \in ttsCache : e[1] # k} \cup {<<k, b, made>>}

\* configurations a caller passes to NewTTSService and UpdateConfig
Configs ==
    [speed : Speeds, cacheEnabled : BOOLEAN,
     maxTextLength : {0, MaxTextBytes, 2 * MaxTextBytes}]

\* the valid configurations a caller of a caching service moves between
CacheConfigs ==
    [speed : {1000, 1004}, cacheEnabled : BOOLEAN,
     maxTextLength : {MaxTextBytes}]

\* NewTTSService: SetSpeed on the new client, the config kept as given
NewTTSService(cfgs) ==
    /\ ttsCfg \in cfgs
    /\ ttsSpeed = ClampSpeed(ttsCfg.speed)
    /\ ttsRunning = FALSE
    /\ ttsCache = {}
    /\ ttsPc = [c \in TtsCallers |-> [at |-> "idle"]]
    /\ ttsRet = [err |-> "no_call"]
    /\ ttsNet = 0
    /\ ttsOpRet = [op |-> "none"]
    /\ ttsSynth = {}

\* a TTSService and its client on their own
InitSynth(cfgs) ==
    /\ InitFields
    /\ tpc = "unstarted"
    /\ allowInterrupt = TRUE
    /\ turnLimit = 0
    /\ InitLife
    /\ startPc = "init"
    /\ InitManagerOpen
    /\ InitNoService
    /\ InitNoTemp
    /\ NewTTSService(cfgs)
    /\ InitNoDecode
    /\ InitNoResample
    /\ InitNoAux

\* TTSClient.SetSpeed
TtsSetSpeed ==
    /\ \E v \in Speeds :
          /\ ttsSpeed' = ClampSpeed(v)
          /\ ttsOpRet' = [op |-> "SetSpeed", speed |-> v, err |-> "none"]
    /\ UNCHANGED <<coreVars, lifeVars, mgrVars, svcVars, tempVars, decVars,
                   rsVars, auxVars, ttsCfg, ttsRunning, ttsCache, ttsPc, ttsRet, ttsNet,
                   ttsSynth>>

\* TTSService.UpdateConfig, under s.mu: nothing changes when validateConfig
\* fails; else the client and the service take the new values, the cache is
\* emptied when caching is off, and a failing MkdirAll is returned at the end
TtsUpdateConfig(cfg, namesOk, mkdirOk) ==
    /\    LET verr == ValidateConfig(cfg, namesOk) IN
          IF verr # "none"
             THEN /\ ttsOpRet' = [op |-> "UpdateConfig", speed |-> cfg.speed,
                                   err |-> verr]
                  /\ UNCHANGED <<ttsSpeed, ttsCfg, ttsCache>>
             ELSE /\ ttsSpeed' = ClampSpeed(cfg.speed)
                  /\ ttsCfg' = cfg
                  /\ ttsCache' = IF cfg.cacheEnabled THEN ttsCache ELSE {}
                  /\ ttsOpRet' = [op |-> "UpdateConfig", speed |-> cfg.speed,
                                   err |-> IF mkdirOk THEN "none" ELSE "mkdir"]
    /\ UNCHANGED <<coreVars, lifeVars, mgrVars, svcVars, tempVars, decVars,
                   rsVars, auxVars, ttsRunning, ttsPc, ttsRet, ttsNet, ttsSynth>>

\* TTSClient.SynthesizeText called on the client: the two checks, then the
\* request, which the endpoint answers with audio or with an error
TtsClientSynthesize ==
    /\ \E t \in Texts, ok \in BOOLEAN :
          IF ClientCheck(t) # "none"
             THEN /\ ttsOpRet' = [op |-> "SynthesizeText", text |-> t,
                                   err |-> ClientCheck(t), net |-> FALSE]
                  /\ UNCHANGED ttsNet
             ELSE /\ ttsNet < MaxNetCalls
                  /\ ttsNet' = ttsNet + 1
                  /\ ttsOpRet' = [op |-> "SynthesizeText", text |-> t,
                                   err |-> IF ok THEN "none" ELSE "api",
                                   net |-> TRUE]
    /\ UNCHANGED <<coreVars, lifeVars, mgrVars, svcVars, tempVars, decVars,
                   rsVars, auxVars, ttsSpeed, ttsCfg, ttsRunning, ttsCache, ttsPc,
                   ttsRet, ttsSynth>>

\* TTSService.Start on a service that is not running
TtsStart ==
    /\ ~ttsRunning
    /\ ttsRunning' = TRUE
    /\ UNCHANGED <<coreVars, lifeVars, mgrVars, svcVars, tempVars, decVars,
                   rsVars, auxVars, ttsSpeed, ttsCfg, ttsCache, ttsPc, ttsRet, ttsNet,
                   ttsOpRet, ttsSynth>>

\* TTSService.Stop on a running service: clearCache()
TtsStop ==
    /\ ttsRunning
    /\ ttsRunning' = FALSE
    /\ ttsCache' = {}
    /\ UNCHANGED <<coreVars, lifeVars, mgrVars, svcVars, tempVars, decVars,
                   rsVars, auxVars, ttsSpeed, ttsCfg, ttsPc, ttsRet, ttsNet, ttsOpRet,
                   ttsSynth>>

\* TTSService.ClearCache
TtsClearCache ==
    /\ ttsCache # {}
    /\ ttsCache' = {}
    /\ UNCHANGED <<coreVars, lifeVars, mgrVars, svcVars, tempVars, decVars,
                   rsVars, auxVars, ttsSpeed, ttsCfg, ttsRunning, ttsPc, ttsRet, ttsNet,
                   ttsOpRet, ttsSynth>>

\* the earlier SynthesizeText calls that returned bytes for text t under the
\* configuration cfg: the bytes they returned
Earlier(cfg, t) == {e[3] : e \in {x \in ttsSynth : x[1] = cfg.speed /\ x[2] = t}}

\* TTSService.SynthesizeText up to the cache: IsRunning, validateText, and
\* with caching on getCachedAudio, which ends the call when it finds bytes
TtsLookup(c) ==
    /\ ttsPc[c].at = "idle"
    /\ \E t \in ServiceTexts :
          LET prior == Earlier(ttsCfg, t)
              hit == IF ttsCfg.cacheEnabled THEN Cached(CacheKey(ttsCfg, t))
                     ELSE "nil"
              err == IF ~ttsRunning THEN "not_running"
                     ELSE ServiceCheck(t, ttsCfg)
          IN  IF err # "none"
                 THEN /\ ttsRet' =
                              [text |-> t, err |-> err, bytes |-> "nil",
                               net |-> FALSE, cached |-> ttsCfg.cacheEnabled,
                               prior |-> prior]
                      /\ UNCHANGED <<ttsPc, ttsSynth>>
              ELSE IF hit # "nil"
                 THEN /\ ttsRet' =
                              [text |-> t, err |-> "none", bytes |-> hit,
                               net |-> FALSE, cached |-> TRUE,
                               prior |-> prior]
                      /\ ttsSynth' = ttsSynth \cup {<<ttsCfg.speed, t, hit>>}
                      /\ UNCHANGED ttsPc
              ELSE /\ ttsPc' = [ttsPc EXCEPT ![c] =
                              [at |-> "client", text |-> t,
                               speed |-> ttsCfg.speed,
                               cached |-> ttsCfg.cacheEnabled,
                               prior |-> prior]]
                   /\ UNCHANGED <<ttsRet, ttsSynth>>
    /\ UNCHANGED <<coreVars, lifeVars, mgrVars, svcVars, tempVars, decVars,
                   rsVars, auxVars, ttsSpeed, ttsCfg, ttsRunning, ttsCache, ttsNet,
                   ttsOpRet>>

\* TTSService.SynthesizeText after a miss: client.SynthesizeText checks the
\* text, builds the request with the speed the client holds at that moment
\* and sends it. No lock is held while the endpoint works.
TtsRequest(c) ==
    /\ ttsPc[c].at = "client"
    /\ LET call == ttsPc[c]
           t == call.text
       IN  IF ClientCheck(t) # "none"
              THEN /\ ttsRet' =
                           [text |-> t, err |-> ClientCheck(t),
                            bytes |-> "nil", net |-> FALSE,
                            cached |-> call.cached, prior |-> call.prior]
                   /\ ttsPc' = [ttsPc EXCEPT ![c] = [at |-> "idle"]]
                   /\ UNCHANGED ttsNet
              ELSE /\ ttsNet < MaxNetCalls
                   /\ ttsNet' = ttsNet + 1
                   /\ ttsPc' = [ttsPc EXCEPT ![c] =
                              [at |-> "inflight", text |-> t,
                               speed |-> call.speed, cached |-> call.cached,
                               prior |-> call.prior, made |-> ttsSpeed]]
                   /\ UNCHANGED ttsRet
    /\ UNCHANGED <<coreVars, lifeVars, mgrVars, svcVars, tempVars, decVars,
                   rsVars, auxVars, ttsSpeed, ttsCfg, ttsRunning, ttsCache,
                   ttsOpRet, ttsSynth>>

\* TTSService.SynthesizeText when the endpoint has answered: an error is
\* returned; bytes are kept by cacheAudio, with caching on, under the key of
\* the configuration of that moment, and returned
TtsSynthesize(c) ==
    /\ ttsPc[c].at = "inflight"
    /\ LET call == ttsPc[c]
           t == call.text
       IN  \E b \in Bytes \cup {"nil"} :
              /\ ttsRet' =
                     [text |-> t,
                      err |-> IF b = "nil" THEN "api" ELSE "none",
                      bytes |-> b, net |-> TRUE,
                      cached |-> call.cached, prior |-> call.prior]
              /\ ttsCache' =
                     IF b # "nil" /\ ttsCfg.cacheEnabled
                        THEN Store(CacheKey(ttsCfg, t), b, call.made)
                        ELSE ttsCache
              /\ ttsSynth' =
                     IF b # "nil"
                        THEN ttsSynth \cup {<<call.speed, t, b>>}
                        ELSE ttsSynth
    /\ ttsPc' = [ttsPc EXCEPT ![c] = [at |-> "idle"]]
    /\ UNCHANGED <<coreVars, lifeVars, mgrVars, svcVars, tempVars, decVars,
                   rsVars, auxVars, ttsSpeed, ttsCfg, ttsRunning, ttsNet,
                   ttsOpRet>>

\* the client's setters and checks, called directly and through UpdateConfig
NextSpeed ==
    \/ TtsSetSpeed
    \/ \E cfg \in Configs, namesOk \in BOOLEAN, mkdirOk \in BOOLEAN :
          TtsUpdateConfig(cfg, namesOk, mkdirOk)
    \/ TtsClientSynthesize

InitSpeed == InitSynth(Configs)

SpecSpeed == InitSpeed /\ [][NextSpeed]_vars

\* the service with its cache, used by several goroutines
NextCache ==
    \/ \E cfg \in CacheConfigs : TtsUpdateConfig(cfg, TRUE, TRUE)
    \/ TtsStart
    \/ TtsStop
    \/ TtsClearCache
    \/ \E c \in TtsCallers : TtsLookup(c)
    \/ \E c \in TtsCallers : TtsRequest(c)
    \/ \E c \in TtsCallers : TtsSynthesize(c)

InitCache == InitSynth(CacheConfigs)

SpecCache == InitCache /\ [][NextCache]_vars

\* the configurations of a caching service whose speed a caller changes
\* while other callers synthesize
FlightConfigs ==
    [speed : {1000, 2000}, cacheEnabled : {TRUE},
     maxTextLength : {MaxTextBytes}]

NextFlight ==
    \/ \E cfg \in FlightConfigs : TtsUpdateConfig(cfg, TRUE, TRUE)
    \/ TtsStart
    \/ TtsStop
    \/ \E c \in TtsCallers : TtsLookup(c)
    \/ \E c \in TtsCallers : TtsRequest(c)
    \/ \E c \in TtsCallers : TtsSynthesize(c)

InitFlight == InitSynth(FlightConfigs)

SpecFlight == InitFlight /\ [][NextFlight]_vars

\* ------------------------------------------------------ package audio, decoder
\* the float32 a conversion yields, kept as the fraction <<numerator, scale>>
InUnit(x) == -x[2] <= x[1] /\ x[1] <= x[2]

\* decodeWAV and decodeMP3: the sample limited to [-1.0, 1.0]
Clamp(x) ==
    IF x[1] > x[2] THEN <<x[2], x[2]>>
    ELSE IF x[1] < -x[2] THEN <<-x[2], x[2]>>
    ELSE x

\* parseWAVContent, the loop over the chunks: after the data chunk the reader
\* stands at its end (Seek may pass the end of the file); the next header is
\* read there.  No byte left is io.EOF and ends the loop, a whole chunk is
\* skipped, 1 to 7 bytes are io.ErrUnexpectedEOF and the parse fails
ChunksErr(p) ==
    IF p.tail \in {"stray", "chunk_pad"} THEN "chunk_header" ELSE "none"

\* extractAudioData: the size of the data that is used
EffectiveSize(p) ==
    IF DataOffset + p.declared > DataOffset + p.rest THEN p.rest ELSE p.declared

\* extractAudioData: `if numSamples <= 0`
NumSamplesErr(n) == IF n <= 0 THEN "no_samples" ELSE "none"

\* RobustLoadFromWAV on a payload: the error, or the samples: n of them, each
\* the 16-bit value divided by 32767
Robust(p) ==
    IF p.container # "wav" THEN [err |-> "not_riff", n |-> 0]
    ELSE IF ChunksErr(p) # "none" THEN [err |-> ChunksErr(p), n |-> 0]
    ELSE IF p.format # 1 THEN [err |-> "unsupported_format", n |-> 0]
    ELSE IF p.bits # 16 THEN [err |-> "unsupported_bits", n |-> 0]
    ELSE LET numSamples == EffectiveSize(p) \div (p.bits \div 8)
         IN  IF NumSamplesErr(numSamples) # "none"
                THEN [err |-> NumSamplesErr(numSamples), n |-> 0]
                ELSE [err |-> "none", n |-> numSamples]

\* a payload on its way into DecodeAudioData
InitDecode ==
    /\ InitFields
    /\ tpc = "unstarted"
    /\ allowInterrupt = TRUE
    /\ turnLimit = 0
    /\ InitLife
    /\ startPc = "init"
    /\ InitManagerOpen
    /\ InitNoService
    /\ InitNoTemp
    /\ InitNoTTS
    /\ audioData \in Payloads
    /\ decoded = [via |-> "none"]
    /\ InitNoResample
    /\ InitNoAux

\* DecodeAudioData took the robust parser's samples
DecodedRobust ==
    /\ Robust(audioData).err = "none"
    /\ decoded' = [via |-> "robust", robust |-> Robust(audioData),
                   err |-> "none", n |-> Robust(audioData).n,
                   value |-> <<audioData.level, RobustScale>>]

\* DecodeAudioData fell back on decodeWAV: the go-wav reader fails, or
\* yields samples whose value is divided by the full scale of the sample
\* width (128 for 8 bits) and limited to [-1.0, 1.0]
DecodedGoWav ==
    /\ audioData.container = "wav"
    /\ Robust(audioData).err # "none"
    /\ \E ok \in BOOLEAN, n \in 0..MaxLibSamples, v8 \in {-128, 0, 255} :
          decoded' =
             IF ok
                THEN [via |-> "go-wav", robust |-> Robust(audioData),
                      err |-> "none", n |-> n,
                      value |-> IF audioData.bits = 16
                                   THEN Clamp(<<audioData.level, LibraryScale>>)
                                   ELSE Clamp(<<v8, 128>>)]
                ELSE [via |-> "go-wav", robust |-> Robust(audioData),
                      err |-> "library", n |-> 0, value |-> <<0, 1>>]

\* DecodeAudioData used decodeMP3, for an MP3 payload or after both WAV
\* decoders refused an unknown one: minimp3 fails, or yields 16-bit PCM of
\* one or two channels, mixed down, divided by 32768 and limited
DecodedMP3 ==
    /\ audioData.container \in {"mp3", "unknown"}
    /\ \E ok \in BOOLEAN, pcmSamples \in 0..MaxLibSamples, ch \in {1, 2} :
          decoded' =
             IF ok
                THEN [via |-> "mp3", robust |-> Robust(audioData),
                      err |-> "none",
                      n |-> (pcmSamples + ch - 1) \div ch,
                      value |-> Clamp(<<audioData.level, LibraryScale>>)]
                ELSE [via |-> "mp3", robust |-> Robust(audioData),
                      err |-> "library", n |-> 0, value |-> <<0, 1>>]

\* DecodeAudioData, once for the payload
Decode ==
    /\ decoded.via = "none"
    /\ DecodedRobust \/ DecodedGoWav \/ DecodedMP3
    /\ UNCHANGED <<coreVars, lifeVars, mgrVars, svcVars, tempVars, ttsVars,
                   rsVars, auxVars, audioData>>

NextDecode == Decode

SpecDecode == InitDecode /\ [][NextDecode]_vars

\* ------------------------------------------------------------------- claims
InFlight == {w \in Workers : pc[w] \notin {"unused", "done"}}
LiveScopes == {sc \in ScopeIds : scopeSt[sc] = "live"}

\* PlaySamples of worker w is waiting and the callback has emitted every sample
\* and set finished, with no Stop and no cancellation
PlayDrained(w) ==
    /\ pc[w] = "play_wait"
    /\ aoPos = aoLen
    /\ aoFinished
    /\ ~aoInterrupted
    /\ scopeSt[Scope(w)] = "live"

\* PlaySamples of worker w is waiting and samples are still to be emitted
PlayUndrained(w) == pc[w] = "play_wait" /\ aoPos < aoLen /\ ~aoInterrupted

\* the step in which handleInterrupt runs
HandleInterruptStep == tpc = "handle" /\ tpc' = "wait"

\* C1: in a Speaking turn without barge-in and without cancellation, once
\* playback has drained performTTS returns and the goroutine ends with the
\* controller state Idle.
C1_DrainedTurnEndsIdle ==
    \A w \in Workers :
        PlayDrained(w) ~>
            \/ scopeSt[Scope(w)] # "live"
            \/ aoInterrupted
            \/ (pc[w] = "done" /\ state = StateIdle)

\* C2: PlaySamples does not keep blocking after every sample has been emitted:
\* once the sink has drained, the call leaves its wait loop.
C2_PlayReturnsAfterDrain ==
    \A w \in Workers :
        (pc[w] = "play_wait" /\ aoPos = aoLen /\ aoFinished) ~> (pc[w] # "play_wait")

\* C3: from the tick that ends the recording until the turn enters Speaking
\* the state is Processing and the tick loop hands no frame to the detector.
C3_ProcessingUntilSpeaking ==
    \A w \in Workers :
        (pc[w] \in {"asr", "llm_lock", "llm_call"}
            \/ (pc[w] = "tts_begin" /\ kind[w] = KindReply))
        => (state = StateProcessing /\ tpc # "detect")

\* C4: at most one turn is in flight: while a processing goroutine has not
\* finished, no second one exists and no recording is running (the recording
\* of the turn itself ends with resetRecording).
C4_OneTurnInFlight ==
    /\ Cardinality(InFlight) <= 1
    /\ (InFlight # {} /\ tpc # "reset") => ~isListening

\* C5: when handleInterrupt runs while an utterance is playing, that play
\* call's Playback Scope is cancelled (so the call returns ctx.Err()), the state
\* becomes Idle and the history keeps the assistant reply.
C5_BargeInCancelsPlayback ==
    [][HandleInterruptStep =>
          /\ state' = StateIdle
          /\ history' = history
          /\ \A w \in Workers :
                pc[w] = "play_wait" => scopeSt'[Scope(w)] = "cancelled"]_vars

\* C6: handleInterrupt is called only when the probation began in the current
\* Speaking turn and every tick since then had a qualifying detection.
C6_ConfirmedOnlyAfterCleanProbation ==
    [][(tpc = "interrupt" /\ tpc' = "handle") => probClean']_vars

\* C7: with AllowInterrupt false and no shutdown, the state does not change
\* from Speaking to Idle while a play call still has samples to emit.
C7_NoIdleBeforeDrain ==
    [][(~allowInterrupt /\ ~rootCancelled'
            /\ state = StateSpeaking /\ state' = StateIdle)
          => \A w \in Workers : ~PlayUndrained(w)]_vars

\* C8: a cancellation error is not answered with the apology: no goroutine
\* whose err is a cancellation error gets its apology synthesized and played.
C8_NoApologyForCancel ==
    \A w \in Workers :
        (kind[w] = KindApology /\ procErr[w] = "canceled") => pc[w] # "play_wait"

\* C9: a barge-in confirmed after the turn entered Speaking and before play
\* began is kept: after handleInterrupt, the scope of every performTTS that
\* has not reached the sink is cancelled.
C9_EarlyCancelKept ==
    [][HandleInterruptStep =>
          \A w \in Workers : BeforePlay(w) => scopeSt'[Scope(w)] = "cancelled"]_vars

\* C10: at most one Playback Scope is live, and the deferred cleanup of a
\* performTTS call cancels no scope but the one that call created.
C10_OneScopeOwnCleanup ==
    [][/\ Cardinality(LiveScopes') <= 1
       /\ \A w \in Workers :
             (pc[w] = "cleanup" /\ pc'[w] = "tts_end")
                => \A sc \in ScopeIds :
                      (scopeSt[sc] = "live" /\ scopeSt'[sc] = "cancelled")
                         => sc = Scope(w)]_vars


\* the goroutine of worker w is inside the performTTS of the apology for a
\* failed Transcriber call and the state is Speaking: performASR returned an
\* error, so performLLM never ran and (in a run of one recording) nothing was
\* appended to the history
AsrFailedSpeaking(w) ==
    /\ pc[w] \in {"tts_lock", "synth", "play_wait", "cleanup", "tts_end"}
    /\ kind[w] = KindApology
    /\ procErr[w] # "none"
    /\ history = <<>>
    /\ state = StateSpeaking

\* C11: when performASR fails the controller enters Speaking with the apology
\* and afterwards returns to Idle, and the history has no user message of that
\* turn.
C11_AsrFailureApologyThenIdle ==
    \A w \in Workers :
        AsrFailedSpeaking(w) ~> (state = StateIdle /\ history = <<>>)

\* the positions of a message in the history
Positions(m) == {i \in 1..Len(history) : history[i] = m}

\* the goroutine of worker w is inside performTTS for the reply
InReplyTTS(w) ==
    /\ kind[w] = KindReply
    /\ pc[w] \in {"tts_lock", "synth", "play_wait", "cleanup", "tts_end"}

\* C12: while the Responder call of a turn is in flight, the list it was sent
\* is the system prompt followed by the history, whose last entry is that
\* turn's user message; and while the Synthesizer is called for the reply, the
\* history holds the reply after the turn's user message. This holds with
\* several turns in flight.
C12_AppendBeforeCall ==
    \A w \in Workers :
        /\ pc[w] = "llm_call" =>
              /\ history # <<>>
              /\ history[Len(history)] = UserMsg(w)
              /\ sent[w] = <<SystemPrompt>> \o history
        /\ InReplyTTS(w) =>
              \E i \in Positions(UserMsg(w)), j \in Positions(AssistantMsg(w)) : i < j

\* a second turn's Responder call in flight while the first turn is playing
C12_Witness ==
    /\ pc[2] = "llm_call"
    /\ pc[1] = "play_wait"
    /\ sent[2] = <<SystemPrompt, UserMsg(1), AssistantMsg(1), UserMsg(2)>>

\* C14: the conversation history alternates user and assistant messages and
\* begins with a user message, whatever turns have run.
C14_HistoryAlternates ==
    \A i \in 1..Len(history) :
        history[i][1] = IF i % 2 = 1 THEN "user" ELSE "assistant"

\* the non-system messages of the Service's history
Kept == SelectSeq(conversationHist, NotSystem)

\* s is the sequence of the last Len(s) entries of t
IsSuffix(s, t) ==
    /\ Len(s) <= Len(t)
    /\ s = SubSeq(t, Len(t) - Len(s) + 1, Len(t))

\* C13: after any sequence of successful Chat calls, the non-system messages
\* kept are a contiguous suffix of all the non-system messages appended, and
\* the first of them is a user message.
C13_KeptSuffixStartsWithUser ==
    ~chatFailed =>
        /\ IsSuffix(Kept, chatLog)
        /\ Kept # <<>> => Kept[1][1] = "user"

\* C15: a successful Chat call (one that appends two messages) leaves a
\* history with every system message, with at most MaxHistoryLength minus the
\* number of system messages non-system messages, and those are the most
\* recent ones in their order. Stated where that number is not negative.
C15_TrimKeepsMostRecent ==
    [][(Len(chatLog') = Len(chatLog) + 2) =>
          LET sys == SelectSeq(conversationHist, IsSystem)
              sysAfter == SelectSeq(conversationHist', IsSystem)
              keptAfter == SelectSeq(conversationHist', NotSystem)
          IN  maxHistoryLength >= Len(sys) =>
                 /\ sysAfter = sys
                 /\ Len(keptAfter) <= maxHistoryLength - Len(sys)
                 /\ IsSuffix(keptAfter, chatLog')]_vars

\* C30: ClearHistory removes every user and assistant message and leaves the
\* system messages as they were, in their order.  (A Chat call that changes
\* the history also extends chatLog; the step that changes the history alone
\* is ClearHistory.)
C30_ClearKeepsSystemOnly ==
    [][conversationHist' # conversationHist /\ chatLog' = chatLog
       => /\ \A i \in 1..Len(conversationHist') :
                conversationHist'[i][1] = "system"
          /\ conversationHist' = SelectSeq(conversationHist, IsSystem)
          /\ UNCHANGED <<maxHistoryLength, isRunning>>]_vars

\* a history holding the system message and both kinds of conversation message
C30_Witness ==
    /\ conversationHist = <<SystemPrompt>>
    /\ Len(chatLog) >= 2
    /\ isRunning

\* C20: over any interleaving of Initialize and Terminate calls, the library
\* is initialized exactly in the step that takes the count from zero to one,
\* torn down exactly in the step that takes it back to zero, never asked to
\* terminate while it is down, the count is never negative, and a Terminate
\* call at count zero changes nothing.
C20_RefCountedLifecycle ==
    [][/\ (~paUp /\ paUp') <=> (refCount = 0 /\ refCount' = 1)
       /\ (paUp /\ ~paUp') <=> (refCount = 1 /\ refCount' = 0)
       /\ ~paBadTerminate'
       /\ refCount' >= 0
       /\ initialized' = paUp'
       /\ (terms' # terms /\ refCount = 0) =>
              UNCHANGED <<refCount, initialized, paUp>>]_vars

\* one client has initialized and terminated twice each and the library is up
\* with count one: a Terminate call found the count at zero on the way
C20_Witness ==
    /\ inits[1] = 2
    /\ terms[1] = 2
    /\ inits[2] = 0
    /\ terms[2] = 0
    /\ refCount = 1
    /\ paUp

\* C16: when the detector check of Start fails, Start returns the error and
\* the tick loop is never started: no frame is read, no recording begins and
\* the state stays Idle.
C16_FailedCheckStartsNothing ==
    startPc = "check_failed" =>
        /\ tpc = "unstarted"
        /\ state = StateIdle
        /\ ~isListening
        /\ turns = 0

\* Start has returned the check's error and main has exited on it
C16_Witness == startPc = "check_failed" /\ exitCode = "1"

\* the goroutine of worker w is inside a call made with va.ctx or with a
\* Playback Scope: TranscribeFile, ChatCompletion, SynthesizeText, PlaySamples
InAdapterCall(w) == pc[w] \in {"asr", "llm_call", "synth", "play_wait"}

\* C17: once the context passed to Start is cancelled, the context of every
\* adapter call in flight is cancelled and no Playback Scope is live.
C17_OuterCancelReachesAll ==
    outerCancelled =>
        /\ \A w \in Workers : InAdapterCall(w) => rootCancelled
        /\ LiveScopes = {}

\* C18: after a successful start, Start never returns an error and the
\* process never exits with a code other than 0.
C18_SignalExitsZero ==
    /\ startPc # "returned_ctxerr"
    /\ exitCode = "1" => startPc = "check_failed"

\* C19: after Stop has returned, Close has been called on both streams, the
\* Manager's count is zero and the audio library is torn down.
C19_StopReleasesAudio ==
    sigPc = "stopped" =>
        /\ inClosed
        /\ outClosed
        /\ refCount = 0
        /\ ~initialized
        /\ ~paUp

\* C21: Stop never waits and may be repeated, and a Stop during a PlaySamples
\* call acts as the cancellation of that call's context does: the device
\* callbacks that follow write only zeros and the PlaySamples call returns.
C21_StopEndsPlay ==
    \A w \in Workers :
        (pc[w] = "play_wait" /\ aoInterrupted) ~> (pc[w] # "play_wait")

\* C22: a temporary WAV file exists only while the operation that created it
\* is running: when the operation has returned, by any path, its file is gone.
C22_TempFilesDeleted ==
    tempFiles = Cardinality({o \in TempOps : tmpPc[o] # "idle"})

\* C27: SetSpeed and UpdateConfig never fail on a speed outside [0.25, 4.0]:
\* the client keeps the nearest bound, and a speed inside the range as given,
\* so the speed used for synthesis is always inside the range.
C27_SpeedClamped ==
    /\ SpeedMin <= ttsSpeed /\ ttsSpeed <= SpeedMax
    /\ ttsOpRet.op \in {"SetSpeed", "UpdateConfig"}
          /\ ttsOpRet.err \notin {"invalid_name", "invalid_max_text_length",
                                   "mkdir"}
       => /\ ttsOpRet.err = "none"
          /\ ttsSpeed = ClampSpeed(ttsOpRet.speed)

\* C28: synthesis takes every text of 1 to 4096 characters and refuses, with
\* no request sent, the empty text and every text of more than 4096
\* characters; the count is of characters, not of bytes.
C28_TextLimitInCharacters ==
    ttsOpRet.op = "SynthesizeText"
    => LET chars == ttsOpRet.text[1]
           refused == ttsOpRet.err \in {"empty", "too_long"}
       IN  /\ refused <=> (chars = 0 \/ chars > MaxTextBytes)
           /\ refused => ~ttsOpRet.net

\* C29: with caching on and the service running, a SynthesizeText call for a
\* text that an earlier call synthesized under the same configuration returns
\* the bytes of that call and sends no request.
C29_CachedTextNoRequest ==
    ttsRet.err \notin {"no_call", "not_running"}
       /\ ttsRet.cached /\ ttsRet.prior # {}
    => /\ ~ttsRet.net
       /\ ttsRet.prior = {ttsRet.bytes}

\* ---------------------------------------------------- package audio, resampler
\* Whole numbers beyond the integers of the checker are kept as sequences of
\* digits in base 256, the least significant first, without leading zeros.
Base == 256

RECURSIVE ToLimbs(_)
ToLimbs(n) == IF n = 0 THEN <<>> ELSE <<n % Base>> \o ToLimbs(n \div Base)

RECURSIVE ToInt(_)
ToInt(x) == IF x = <<>> THEN 0 ELSE Head(x) + Base * ToInt(Tail(x))

RECURSIVE Normal(_)
Normal(x) ==
    IF x = <<>> THEN <<>>
    ELSE IF x[Len(x)] = 0 THEN Normal(SubSeq(x, 1, Len(x) - 1))
    ELSE x

\* x * m + carry
RECURSIVE MulSmall(_, _, _)
MulSmall(x, m, carry) ==
    IF x = <<>> THEN ToLimbs(carry)
    ELSE LET v == Head(x) * m + carry
         IN  <<v % Base>> \o MulSmall(Tail(x), m, v \div Base)

\* x * 2^bits
Shl(x, bits) ==
    Normal([i \in 1..(bits \div 8) |-> 0] \o MulSmall(x, 2 ^ (bits % 8), 0))

\* x + y + carry
RECURSIVE Add(_, _, _)
Add(x, y, carry) ==
    IF x = <<>> /\ y = <<>> THEN ToLimbs(carry)
    ELSE LET a == IF x = <<>> THEN 0 ELSE Head(x)
             b == IF y = <<>> THEN 0 ELSE Head(y)
             v == a + b + carry
         IN  <<v % Base>> \o Add(IF x = <<>> THEN <<>> ELSE Tail(x),
                                 IF y = <<>> THEN <<>> ELSE Tail(y),
                                 v \div Base)

\* x >= y
RECURSIVE Geq(_, _)
Geq(x, y) ==
    IF Len(x) # Len(y) THEN Len(x) > Len(y)
    ELSE IF x = <<>> THEN TRUE
    ELSE IF x[Len(x)] # y[Len(y)] THEN x[Len(x)] > y[Len(y)]
    ELSE Geq(SubSeq(x, 1, Len(x) - 1), SubSeq(y, 1, Len(y) - 1))

\* quotient and remainder of x by the small number d
RECURSIVE DivRem(_, _)
DivRem(x, d) ==
    IF x = <<>> THEN [q |-> <<>>, r |-> 0]
    ELSE LET hi == DivRem(Tail(x), d)
             v == hi.r * Base + Head(x)
         IN  [q |-> <<v \div d>> \o hi.q, r |-> v % d]

\* floor(n * m / d), exactly
FloorExact(n, m, d) == ToInt(Normal(DivRem(MulSmall(ToLimbs(n), m, 0), d).q))

\* t with 2^t <= a / b < 2^(t+1)
RECURSIVE FloorLog2Ratio(_, _)
FloorLog2Ratio(a, b) ==
    IF a >= b
       THEN IF a >= 2 * b THEN 1 + FloorLog2Ratio(a, 2 * b) ELSE 0
       ELSE FloorLog2Ratio(2 * a, b) - 1

\* float64(a) / float64(b) for whole numbers a, b below 2^53, which float64
\* holds exactly: the quotient rounded to 53 significant bits, to nearest,
\* ties to even.  The result is the number m / 2^s.
FDiv(a, b) ==
    LET s == 52 - FloorLog2Ratio(a, b)
        dr == DivRem(Shl(ToLimbs(a), s), b)
        q == Normal(dr.q)
        up == 2 * dr.r > b \/ (2 * dr.r = b /\ q[1] % 2 = 1)
    IN  [m |-> IF up THEN Normal(Add(q, <<1>>, 0)) ELSE q, s |-> s]

\* for a whole number k >= 1, which float64 holds, the h with 2^(-h) half the
\* distance from k to the float64 below it: a real number rounds to k or
\* above exactly when it is at least k - 2^(-h) (k's last bit is even)
HalfUlpBelow(k) ==
    LET p == FloorLog2Ratio(k, 1)
    IN  IF k = 2 ^ p THEN 54 - p ELSE 53 - p

\* float64(n) / ratio >= k, the division rounded to float64
RoundedDivGeq(n, ratio, k) ==
    \/ k <= 0
    \/ LET h == HalfUlpBelow(k)
       IN  Geq(Normal(Add(Shl(ToLimbs(n), ratio.s + h), ratio.m, 0)),
               Shl(MulSmall(ratio.m, k, 0), h))

\* float64(i) * ratio >= k, the product rounded to float64
RoundedMulGeq(i, ratio, k) ==
    \/ k <= 0
    \/ LET h == HalfUlpBelow(k)
       IN  Geq(Normal(Add(Shl(MulSmall(ratio.m, i, 0), h), Shl(<<1>>, ratio.s), 0)),
               Shl(ToLimbs(k), ratio.s + h))

\* int(x) of a float64 x >= 0 is the whole number k with x >= k and not
\* x >= k + 1; it is looked for among the whole numbers next to the exact
\* value of what x was rounded from
Near(exact) == {k \in (exact - 2)..(exact + 2) : k >= 0}

\* outputLength := int(float64(len(inputSamples)) / ratio)
OutputLength(n, r1, r2) ==
    LET ratio == FDiv(r1, r2)
    IN  CHOOSE k \in Near(FloorExact(n, r2, r1)) :
            RoundedDivGeq(n, ratio, k) /\ ~RoundedDivGeq(n, ratio, k + 1)

\* sourceIndex := int(float64(i) * ratio)
SourceIndex(i, r1, r2) ==
    LET ratio == FDiv(r1, r2)
    IN  CHOOSE k \in Near(FloorExact(i, r1, r2)) :
            RoundedMulGeq(i, ratio, k) /\ ~RoundedMulGeq(i, ratio, k + 1)

\* the indices of inputSamples that the loop reads for output sample i
ReadsAt(i, n, r1, r2) ==
    LET sourceIndex == SourceIndex(i, r1, r2)
    IN  IF sourceIndex >= n - 1 THEN {n - 1} ELSE {sourceIndex, sourceIndex + 1}

\* the output samples whose reads are computed
LoopSteps(outputLength) ==
    IF outputLength <= MaxLoop THEN 0..(outputLength - 1)
    ELSE {0, outputLength - 1}

\* the least and the greatest element of a set of indices, <<0, -1>> of none
Span(idx) ==
    IF idx = {} THEN <<0, -1>>
    ELSE <<CHOOSE i \in idx : \A j \in idx : i <= j,
           CHOOSE i \in idx : \A j \in idx : i >= j>>

\* the interpolation loop: the length of the output, the span of the
\* indices read
Interpolate(n, r1, r2) ==
    LET outputLength == OutputLength(n, r1, r2)
    IN  [err |-> "none", n |-> outputLength,
         reads |-> Span(UNION {ReadsAt(i, n, r1, r2) :
                                  i \in LoopSteps(outputLength)})]

\* the copy made when the rates are equal
CopyAll(n) == [err |-> "none", n |-> n, reads |-> <<0, n - 1>>]

NoSamples == [err |-> "none", n |-> 0, reads |-> <<0, -1>>]

\* audio.Resample
Resample(n, r1, r2) ==
    IF r1 <= 0 \/ r2 <= 0 THEN [err |-> "invalid_rates", n |-> 0, reads |-> <<0, -1>>]
    ELSE IF n = 0 THEN NoSamples
    ELSE IF r1 = r2 THEN CopyAll(n)
    ELSE Interpolate(n, r1, r2)

\* AudioDecoder.ResampleAudio
ResampleAudio(n, r1, r2) ==
    IF r1 = r2 THEN CopyAll(n)
    ELSE IF n = 0 THEN NoSamples
    ELSE Interpolate(n, r1, r2)

\* the calls that are tried: short inputs at small rates, and inputs of one,
\* two, 960 and 1,165,200 samples at the sample rates of audio devices
SmallCalls == [len : {0, 1, 2, 3, 21}, r1 : {1, 2, 3, 17}, r2 : {1, 2, 3, 17}]
DeviceRates == {8000, 11025, 16000, 22050, 24000, 44100, 48000}
DeviceCalls == [len : {1, 2, 960, 1165200}, r1 : DeviceRates, r2 : DeviceRates]
Calls == SmallCalls \cup DeviceCalls
\* Resample is also called with a rate that is not positive
BadRateCalls == [len : {0, 2}, r1 : {0, 3}, r2 : {0, 3}]

InitResample ==
    /\ InitFields
    /\ tpc = "unstarted"
    /\ allowInterrupt = TRUE
    /\ turnLimit = 0
    /\ InitLife
    /\ startPc = "init"
    /\ InitManagerOpen
    /\ InitNoService
    /\ InitNoTemp
    /\ InitNoTTS
    /\ InitNoDecode
    /\ InitNoAux
    /\ \/ \E c \in Calls, f \in {"Resample", "ResampleAudio"} :
             rsIn = [fn |-> f, len |-> c.len, r1 |-> c.r1, r2 |-> c.r2]
       \/ \E c \in BadRateCalls :
             rsIn = [fn |-> "Resample", len |-> c.len, r1 |-> c.r1, r2 |-> c.r2]
    /\ rsOut = [err |-> "no_call"]

CallResample ==
    /\ rsOut.err = "no_call"
    /\ rsIn.fn = "Resample"
    /\ rsOut' = Resample(rsIn.len, rsIn.r1, rsIn.r2)
    /\ UNCHANGED <<coreVars, lifeVars, mgrVars, svcVars, tempVars, ttsVars,
                   decVars, rsIn, auxVars>>

CallResampleAudio ==
    /\ rsOut.err = "no_call"
    /\ rsIn.fn = "ResampleAudio"
    /\ rsOut' = ResampleAudio(rsIn.len, rsIn.r1, rsIn.r2)
    /\ UNCHANGED <<coreVars, lifeVars, mgrVars, svcVars, tempVars, ttsVars,
                   decVars, rsIn, auxVars>>

NextResample == CallResample \/ CallResampleAudio

SpecResample == InitResample /\ [][NextResample]_vars

\* the payloads C23 speaks of: RIFF/WAVE, PCM, 16 bits, one channel
IsPcm16Mono(p) ==
    p.container = "wav" /\ p.format = 1 /\ p.bits = 16 /\ p.channels = 1

\* C23: for a RIFF/WAVE PCM-16 mono payload the decoder returns exactly
\* floor(min(declared size, file size - data offset) / 2) samples, and with
\* the size field 0xFFFFFFFF floor((file size - data offset) / 2) samples
\* without failing.
C23_SampleCount ==
    decoded.via # "none" /\ IsPcm16Mono(audioData)
    => /\ decoded.robust.err = "none"
       /\ decoded.robust.n = Min(audioData.declared, audioData.rest) \div 2
       /\ decoded.err = "none"
       /\ decoded.n = Min(audioData.declared, audioData.rest) \div 2

\* C24: a RIFF/WAVE payload whose fmt chunk is not PCM at 16 bits is refused:
\* DecodeAudioData returns an error and no samples for it.
C24_NonPcm16Refused ==
    decoded.via # "none" /\ audioData.container = "wav"
       /\ (audioData.format # 1 \/ audioData.bits # 16)
    => decoded.err # "none"

\* C25: every sample the decoder returns lies in [-1.0, 1.0], on each decode
\* path and for each 16-bit value.
C25_SamplesInUnitRange ==
    decoded.via # "none" /\ decoded.err = "none" /\ decoded.n > 0
    => InUnit(decoded.value)

\* C26: for positive rates the resampler returns exactly
\* floor(len * r2 / r1) samples (1,165,200 samples at 24000 Hz give 776,800
\* at 16000 Hz), and every index of the input that it reads is within the
\* input.
C26_ResampleLength ==
    rsOut.err # "no_call" /\ rsIn.r1 > 0 /\ rsIn.r2 > 0
    => /\ rsOut.err = "none"
       /\ rsOut.n = FloorExact(rsIn.len, rsIn.r2, rsIn.r1)
       /\ rsOut.reads[1] >= 0
       /\ rsOut.reads[2] <= rsIn.len - 1

\* ------------------------------------------- the recording buffer of the loop
\* The tick loop again, one action for one pass through the ticker case, with
\* the slice audioBuffer: its frames, its capacity, and the array that the
\* slice and the goroutines of processRecording point to.  Input.Read copies
\* every frame, so a frame is named by the recording and the place at which
\* the loop appended it.

\* append on a slice that is full: the runtime doubles a small capacity
NewCap(c) == IF c = 0 THEN 1 ELSE 2 * c

\* audioBuffer = append(audioBuffer, audioData): in place while the capacity
\* allows, which writes into the array every goroutine holding it reads;
\* else into a new array, which the loop alone points to
AppendFrame(id) ==
    /\ audioBuffer' = Append(audioBuffer, id)
    /\ IF Len(audioBuffer) < bufCap
          THEN /\ held' = [w \in Workers |->
                             IF sameArray[w] /\ Len(audioBuffer) < Len(held[w])
                                THEN [held[w] EXCEPT ![Len(audioBuffer) + 1] = id]
                                ELSE held[w]]
               /\ UNCHANGED <<bufCap, sameArray>>
          ELSE /\ bufCap' = NewCap(bufCap)
               /\ sameArray' = [w \in Workers |-> FALSE]
               /\ UNCHANGED held

\* processRecording(audioBuffer) and resetRecording: the state is set to
\* Processing, the goroutine gets the slice (the same array), then the loop
\* cuts its slice to length 0 over that array and sets the state to Idle
HandOver(frames) ==
    /\ turns' = turns + 1
    /\ pc' = [pc EXCEPT ![turns + 1] = "combine"]
    /\ held' = [held EXCEPT ![turns + 1] = frames]
    /\ sameArray' = [w \in Workers |-> w = turns + 1]
    /\ audioBuffer' = <<>>
    /\ isListening' = FALSE
    /\ recElapsed' = 0
    /\ silenceOn' = FALSE
    /\ silElapsed' = 0
    /\ state' = StateIdle

\* what a tick leaves for the history
TickDone(did, appended, stopped, rec) ==
    lastTick' = [did |-> did, was |-> isListening, appended |-> appended,
                 stopped |-> stopped, rec |-> rec]

\* case <-ticker.C, the whole pass: Read, GetState, detectSpeechActivity and
\* the branch taken on its answer
RecTick ==
    /\ exitCode = "none"
    /\ tpc = "wait"
    /\ LET rec == Advance(isListening, recElapsed, MaxRecordingTicks)
           sil == Advance(silenceOn, silElapsed, MinSilenceTicks)
           id == <<turns + 1, Len(audioBuffer) + 1>>
       IN  \E did \in {"read_error", "detect_error", "speech", "silence"} :
           \* the run holds at most turnLimit recordings
           /\ (~isListening /\ turns >= turnLimit) => did # "speech"
           /\ IF did \in {"read_error", "detect_error"}
                    \/ BranchOf(state) # "detect"
                 THEN /\ recElapsed' = rec
                      /\ silElapsed' = sil
                      /\ TickDone(IF did \in {"read_error", "detect_error"}
                                     THEN did ELSE "no_detect",
                                  FALSE, FALSE, rec)
                      /\ UNCHANGED <<state, isListening, silenceOn, turns, pc,
                                     audioBuffer, bufCap, held, sameArray>>
              ELSE IF did = "speech"
                 THEN LET started == IF isListening THEN rec ELSE 0 IN
                      IF started > MaxRecordingTicks
                         THEN /\ HandOver(Append(audioBuffer, id))
                              /\ bufCap' = IF Len(audioBuffer) < bufCap
                                              THEN bufCap ELSE NewCap(bufCap)
                              /\ TickDone(did, TRUE, TRUE, started)
                         ELSE /\ AppendFrame(id)
                              /\ isListening' = TRUE
                              /\ recElapsed' = started
                              /\ state' = IF isListening THEN state
                                          ELSE StateListening
                              /\ silenceOn' = FALSE
                              /\ silElapsed' = 0
                              /\ TickDone(did, TRUE, FALSE, started)
                              /\ UNCHANGED <<turns, pc>>
              ELSE IF isListening
                 THEN LET quiet == IF silenceOn THEN sil ELSE 0 IN
                      IF quiet > MinSilenceTicks
                         THEN /\ HandOver(Append(audioBuffer, id))
                              /\ bufCap' = IF Len(audioBuffer) < bufCap
                                              THEN bufCap ELSE NewCap(bufCap)
                              /\ TickDone(did, TRUE, TRUE, rec)
                         ELSE /\ AppendFrame(id)
                              /\ silenceOn' = TRUE
                              /\ silElapsed' = quiet
                              /\ recElapsed' = rec
                              /\ TickDone(did, TRUE, FALSE, rec)
                              /\ UNCHANGED <<state, isListening, turns, pc>>
              ELSE /\ recElapsed' = rec
                   /\ silElapsed' = sil
                   /\ TickDone(did, FALSE, FALSE, rec)
                   /\ UNCHANGED <<state, isListening, silenceOn, turns, pc,
                                  audioBuffer, bufCap, held, sameArray>>
    /\ UNCHANGED <<allowInterrupt, rootCancelled, mu, history, scopeVars, tpc,
                   frame, isDetectingInterrupt, intElapsed, kind, res, procErr,
                   aoVars, ghostVars, sent, shutdownChan, combined, vadVars, llmCalls,
                   lifeVars, mgrVars, svcVars, tempVars, ttsVars, decVars,
                   rsVars>>

\* the goroutine of processRecording: one turn of
\* `for _, chunk := range audioBuffer`, which reads the next element of the
\* array as it is at that moment, or the end of the loop
RecCombine(w) ==
    /\ exitCode = "none"
    /\ pc[w] = "combine"
    /\ IF Len(combined[w]) < Len(held[w])
          THEN /\ combined' = [combined EXCEPT ![w] =
                                  Append(@, held[w][Len(combined[w]) + 1])]
               /\ UNCHANGED pc
          ELSE /\ pc' = [pc EXCEPT ![w] = "asr"]
               /\ UNCHANGED combined
    /\ UNCHANGED <<allowInterrupt, state, rootCancelled, mu, history,
                   scopeVars, tickVars, kind, res, procErr, aoVars, ghostVars,
                   sent, shutdownChan, audioBuffer, bufCap, held, sameArray,
                   lastTick, vadVars, llmCalls, lifeVars, mgrVars, svcVars, tempVars,
                   ttsVars, decVars, rsVars>>

\* the goroutine from performASR(combinedAudio) on, for a recording in which
\* the Transcriber finds no text: it returns, and the deferred SetState(Idle)
\* runs; its slice is dropped with it
RecReturn(w) ==
    /\ exitCode = "none"
    /\ pc[w] = "asr"
    /\ pc' = [pc EXCEPT ![w] = "done"]
    /\ state' = StateIdle
    /\ held' = [held EXCEPT ![w] = <<>>]
    /\ sameArray' = [sameArray EXCEPT ![w] = FALSE]
    /\ UNCHANGED <<allowInterrupt, rootCancelled, mu, history, scopeVars,
                   tickVars, kind, res, procErr, aoVars, ghostVars, sent,
                   shutdownChan, audioBuffer, bufCap, combined, lastTick,
                   vadVars, llmCalls, lifeVars, mgrVars, svcVars, tempVars, ttsVars,
                   decVars, rsVars>>

NextRec == RecTick \/ \E w \in Workers : RecCombine(w) \/ RecReturn(w)

SpecRec == Init /\ [][NextRec]_vars

\* C31: when the recording has lasted MaxRecordingDuration it is stopped on
\* that tick and handed to processing, whatever the frame holds, so that no
\* recording goes on beyond MaxRecordingDuration.
C31_MaxDurationStops ==
    (lastTick.did # "none" /\ isListening) => recElapsed <= MaxRecordingTicks

\* C32: a tick on which the detector call fails counts as a tick without
\* speech: in Idle nothing starts, in Listening the frame is recorded and the
\* silence timer runs after it.
C32_DetectorFailureIsSilence ==
    lastTick.did = "detect_error"
    => IF lastTick.was
          THEN lastTick.appended /\ (isListening => silenceOn)
          ELSE ~isListening

\* C33: what a turn's goroutine reads from the buffer, and hands to the
\* Transcriber, are the frames of its own recording in the order of capture;
\* no frame captured later is among them.
C33_OwnFramesOnly ==
    \A w \in Workers : \A i \in 1..Len(combined[w]) : combined[w][i] = <<w, i>>

\* C34: the state is Listening exactly while a recording is active, and a
\* recording starts from an empty buffer at a fresh start time.
C34_ListeningIffRecording ==
    /\ isListening <=> state = StateListening
    /\ (lastTick.did = "speech" /\ ~lastTick.was /\ ~lastTick.stopped)
        => Len(audioBuffer) = 1 /\ recElapsed = 0

\* ------------------------------------------------------- dialogue memory
\* performLLM as one step: the call holds va.mu from its first statement to
\* its return, so the calls of different goroutines follow one another. The
\* user message is appended, then ChatCompletion succeeds or fails; only a
\* success appends the reply and cuts the history.
PerformLLM(w, ok) ==
    IF ok THEN Trim(Append(Append(history, UserMsg(w)), AssistantMsg(w)))
          ELSE Append(history, UserMsg(w))

LlmTurn ==
    /\ llmCalls < MaxLlmCalls
    /\ llmCalls' = llmCalls + 1
    /\ \E ok \in BOOLEAN : history' = PerformLLM(llmCalls + 1, ok)
    /\ UNCHANGED <<allowInterrupt, state, rootCancelled, mu, scopeVars,
                   tickVars, workerVars, aoVars, ghostVars, sent,
                   shutdownChan, lifeVars, mgrVars, svcVars, tempVars,
                   ttsVars, decVars, rsVars, recVars, vadVars>>

NextMemory == LlmTurn
SpecMemory == Init /\ [][NextMemory]_vars

\* C35: once a performLLM call has returned, the conversation history holds
\* at most 20 messages, whatever calls succeeded and failed before.
C35_HistoryAtMostCap ==
    llmCalls > 0 => Len(history) <= HistoryCap

\* C36: a Chat call that returns an error leaves the conversation history as
\* it was before the call. A call that failed after the blank-message test
\* is the step that adds one message, the user's, to chatLog.
C36_FailedChatKeepsHistory ==
    [][Len(chatLog') = Len(chatLog) + 1 => conversationHist' = conversationHist]_vars

\* C37: every entry of the cache holds audio synthesized at the speed of its
\* key (to the two decimals the key keeps) and for the text of its key, also
\* when UpdateConfig ran while the SynthesizeText call was in flight.
C37_CacheEntryMatchesKey ==
    \A e \in ttsCache : Fmt2(e[3]) = e[1][1]

\* C38: once Stop has closed the capture and the playback device, the tick
\* loop makes no capture read and no goroutine starts the output stream.
C38_NoDeviceUseAfterStop ==
    [][(inClosed /\ outClosed) => ~TickRead /\ ~(~streamActive /\ streamActive')]_vars

\* ---------------------------------------------------------------- vad.Service
\* a vad.Service as NewService returns it, with callers of Start and Stop
InitVad == InitTemp

\* a panic ends the process
VadAlive == \A i \in 1..Len(vadLog) : vadLog[i].result # "panic"

\* Service.Start: an error on a running service and on a failed health
\* check; else isRunning = true
VadStart ==
    /\ VadAlive
    /\ Len(vadLog) < MaxVadCalls
    /\ \E healthy \in BOOLEAN :
          LET result == IF vadRunning THEN "already_running"
                        ELSE IF ~healthy THEN "health_check_failed"
                        ELSE "started"
          IN  /\ vadRunning' = (vadRunning \/ result = "started")
              /\ vadLog' = Append(vadLog, [call |-> "Start", result |-> result])
    /\ UNCHANGED <<coreVars, lifeVars, mgrVars, svcVars, tempVars, ttsVars,
                   decVars, rsVars, recVars, llmCalls, vadStopClosed>>

\* Service.Stop: nothing on a stopped service; else close(s.stopChan), which
\* panics on a channel that is closed already, then isRunning = false
VadStop ==
    /\ VadAlive
    /\ Len(vadLog) < MaxVadCalls
    /\ LET result == IF ~vadRunning THEN "not_running"
                     ELSE IF vadStopClosed THEN "panic"
                     ELSE "stopped"
       IN  /\ vadStopClosed' = (vadStopClosed \/ result = "stopped")
           /\ vadRunning' = (vadRunning /\ result # "stopped")
           /\ vadLog' = Append(vadLog, [call |-> "Stop", result |-> result])
    /\ UNCHANGED <<coreVars, lifeVars, mgrVars, svcVars, tempVars, ttsVars,
                   decVars, rsVars, recVars, llmCalls>>

NextVad == VadStart \/ VadStop
SpecVad == InitVad /\ [][NextVad]_vars

\* C39: no sequence of Start and Stop calls on a vad.Service panics: Start
\* on a running service returns an error and leaves it running, Stop on a
\* stopped service does nothing, and a stopped service can be started and
\* stopped again.
C39_StartStopNeverPanics ==
    /\ VadAlive
    /\ (vadLog # <<>> /\ vadLog[Len(vadLog)].call = "Stop") => ~vadRunning
    /\ (vadLog # <<>> /\ vadLog[Len(vadLog)].result = "already_running")
          => vadRunning

\* C40: a PlaySamples call that started the output stream has stopped it when
\* it returns: the stream runs only while a PlaySamples call is in its wait
\* loop, so no later call starts a stream that is still running.
C40_StreamStoppedOnReturn ==
    streamActive => \E w \in Workers : pc[w] = "play_wait"

====
